---- MODULE Spec2Model ----
(***************************************************************************)
(* A model of pyquil's Quil front end, pyquil/_parser/PyQuilListener.py:   *)
(* run_parser (lex, parse, walk, return), the syntax error listener, and   *)
(* the PyQuilListener handlers that accumulate instructions in             *)
(* self.result, with self.previous_result as the single saved buffer of a  *)
(* DEFCIRCUIT / DEFCAL / DEFCAL MEASURE body.                              *)
(*                                                                         *)
(* Python lists are sequences; None is the record NoneValue; every         *)
(* instruction object carries the serial number of its construction (id),  *)
(* which stands for its object identity.                                   *)
(***************************************************************************)
EXTENDS Integers, Sequences, FiniteSets, TLC

VARIABLES
    pc,               \* where run_parser is: "parse", "walk", "returned", "failed"
    result,           \* PyQuilListener.result
    previous_result,  \* PyQuilListener.previous_result
    returned,         \* what run_parser handed to its caller
    error,            \* the exception that left run_parser
    scope,            \* the definition node the tree walker is inside of
    entry,            \* history: self.result as it was at the last enter event
    body,             \* history: the instructions appended since that event
    ref,              \* the listener with a stack of buffers, given the same events
    nEvents,          \* history: the number of listener handlers invoked
    nextId,           \* the number of instruction objects constructed
    nSyntaxErrors,    \* history: the number of syntaxError calls
    last,             \* history: the last handler invoked and its input
    runs              \* two run_parser calls in progress, and their list objects

vars == <<pc, result, previous_result, returned, error, scope, entry, body,
          nEvents, nextId, nSyntaxErrors, last, ref, runs>>

-----------------------------------------------------------------------------
(* Bounds of the model.                                                    *)

MaxEvents == 4
MaxMods == 2
MaxParams == 4
MaxQubits == 3
MaxCalParams == 2
MaxLine == 3
MaxColumn == 5
MaxExpected == 2

-----------------------------------------------------------------------------
(* Python values.                                                          *)

NoneValue == [isNone |-> TRUE, list |-> <<>>]

Some(l) == [isNone |-> FALSE, list |-> l]

NoError ==
    [type |-> "none", site |-> "none", line |-> 0, column |-> 0,
     received |-> "", expected |-> <<>>, refs |-> {}, message |-> ""]

Last(s) == s[Len(s)]

Front(s) == SubSeq(s, 1, Len(s) - 1)

RECURSIVE Reverse(_)
Reverse(s) == IF s = <<>> THEN <<>> ELSE Append(Reverse(Tail(s)), Head(s))

\* list[lo:hi] for 0 <= lo, 0 <= hi: the slice is cut at the end of the list
PySlice(list, lo, hi) ==
    LET h == IF hi > Len(list) THEN Len(list) ELSE hi
    IN  IF lo >= h THEN <<>> ELSE SubSeq(list, lo + 1, h)

\* list[i], where a negative index counts from the end of the list
PyIndex(list, i) == IF i >= 0 THEN list[i + 1] ELSE list[Len(list) + i + 1]

RECURSIVE Pow2(_)
Pow2(n) == IF n = 0 THEN 1 ELSE 2 * Pow2(n - 1)

\* a >> n on a non-negative int
ShiftRight(a, n) == a \div Pow2(n)

RECURSIVE Count(_, _)
Count(list, x) ==
    IF list = <<>> THEN 0
    ELSE (IF Head(list) = x THEN 1 ELSE 0) + Count(Tail(list), x)

\* sep.join(strs)
RECURSIVE Join(_, _)
Join(sep, strs) ==
    IF strs = <<>> THEN ""
    ELSE IF Len(strs) = 1 THEN Head(strs)
    ELSE Head(strs) \o sep \o Join(sep, Tail(strs))

SeqsUpTo(S, n) == UNION {[1..k -> S] : k \in 0..n}

-----------------------------------------------------------------------------
(* List objects of several run_parser calls.                               *)

MaxItems == 2

\* a list object is named by the call that made it and its number among the
\* lists of that call; NoList is None
NoList == <<0, 0>>

ListIds == (0..2) \X (0..(MaxItems + 1))

\* two calls of run_parser(program) that have not made their listeners
StartRuns(p1, p2) ==
    [heap |-> [l \in ListIds |-> <<>>],
     listener |-> [i \in 1..2 |->
                    [pc |-> "start", program |-> IF i = 1 THEN p1 ELSE p2,
                     at |-> 1, result |-> NoList, previous_result |-> NoList,
                     nLists |-> 0, returned |-> NoList]]]

\* no second call is in progress
NoRuns == StartRuns(<<>>, <<>>)

-----------------------------------------------------------------------------
(* The state after nothing has run: run_parser has been called and the     *)
(* listener does not exist yet.                                            *)

Init ==
    /\ pc = "parse"
    /\ result = <<>>
    /\ previous_result = NoneValue
    /\ returned = NoneValue
    /\ error = NoError
    /\ scope = "top"
    /\ entry = <<>>
    /\ body = <<>>
    /\ nEvents = 0
    /\ nextId = 0
    /\ nSyntaxErrors = 0
    /\ last = [handler |-> "none"]
    /\ ref = [result |-> <<>>, stack |-> <<>>]
    /\ runs = NoRuns

-----------------------------------------------------------------------------
(* What every handler shares.                                              *)

\* a faulty Raise: the exception is swallowed and the walk goes on
RaiseAndContinue(type, site, refs, message) ==
    /\ pc' = pc
    /\ error' = [NoError EXCEPT !.type = type, !.site = site, !.refs = refs,
                               !.message = message]
    /\ UNCHANGED returned

\* an exception leaves the handler, the walk (or the parse) and run_parser,
\* which catches nothing: nothing is returned
Raise(type, site, refs, message) ==
    /\ pc' = "failed"
    /\ error' = [NoError EXCEPT !.type = type, !.site = site, !.refs = refs,
                               !.message = message]
    /\ UNCHANGED returned

\* ParseTreeWalker.walk calls one handler of the listener
Visit(handler, input) ==
    /\ pc = "walk"
    /\ nEvents' = nEvents + 1
    /\ last' = [handler |-> handler, input |-> input]
    /\ UNCHANGED <<nSyntaxErrors, runs>>

\* a faulty append that puts the new object in front: self.result.insert(0, instr)
PrependResult(instr) ==
    LET obj == [id |-> nextId] @@ instr
    IN  /\ result' = <<obj>> \o result
        /\ nextId' = nextId + 1
        /\ body' = IF scope = "top" THEN body ELSE Append(body, obj)

\* self.result.append(instr), instr being a newly constructed object
AppendResult(instr) ==
    LET obj == [id |-> nextId] @@ instr
    IN  /\ result' = Append(result, obj)
        /\ nextId' = nextId + 1
        /\ body' = IF scope = "top" THEN body ELSE Append(body, obj)

-----------------------------------------------------------------------------
(* Step 2 of run_parser: the parser and its error listener.                *)

\* QuilParser.literalNames and QuilParser.symbolicNames, cut to four token
\* types: two keywords with a literal form, and IDENTIFIER and INT without
literalNames == <<"<INVALID>", "'DEFGATE'", "'MEASURE'", "<INVALID>", "<INVALID>">>

symbolicNames == <<"<INVALID>", "DEFGATE", "MEASURE", "IDENTIFIER", "INT">>

TokenTypes == 1..(Len(literalNames) - 1)

\* a faulty get_expected_tokens: the symbolic name whatever the token
get_expected_tokens_symbolic(interval_set) ==
    [i \in 1..Len(interval_set) |-> PyIndex(symbolicNames, interval_set[i])]

get_expected_tokens(interval_set) ==
    [i \in 1..Len(interval_set) |->
        LET tok == interval_set[i]
            literal_name == PyIndex(literalNames, tok)
            symbolic_name == PyIndex(symbolicNames, tok)
        IN  IF literal_name # "<INVALID>" THEN literal_name ELSE symbolic_name]

\* an IntervalSet iterates over its token types in increasing order; the
\* expected set of a recognition exception is not empty
IntervalSets ==
    {s \in SeqsUpTo(TokenTypes, MaxExpected) :
        /\ s # <<>>
        /\ \A i \in 1..(Len(s) - 1) : s[i] < s[i + 1]}

\* the argument e of syntaxError: an exception with its expected tokens, or None
Exceptions ==
    {[isNone |-> TRUE, expected |-> <<>>]}
        \cup {[isNone |-> FALSE, expected |-> s] : s \in IntervalSets}

OffendingTexts == {"FOO", "<EOF>"}

SyntaxErrorMessage(line, column, text, expected_tokens) ==
    "Error encountered while parsing the quil program at line "
        \o ToString(line) \o " and column " \o ToString(column) \o "\n"
        \o "Received an '" \o text \o "' but was expecting one of [ "
        \o Join(", ", expected_tokens) \o " ]"

\* a faulty syntaxError: the column is reported as the parser gives it
syntaxError_column0(text, line, column, e) ==
    LET expected_tokens ==
            IF ~e.isNone THEN get_expected_tokens(e.expected) ELSE <<>>
    IN  /\ pc = "parse"
        /\ nSyntaxErrors' = nSyntaxErrors + 1
        /\ last' = [handler |-> "syntaxError",
                    input |-> [text |-> text, line |-> line, column |-> column, e |-> e]]
        /\ pc' = "failed"
        /\ error' = [type |-> "RuntimeError", site |-> "syntaxError",
                     line |-> line, column |-> column, received |-> text,
                     expected |-> expected_tokens, refs |-> {},
                     message |-> SyntaxErrorMessage(line, column, text,
                                                    expected_tokens)]
        /\ UNCHANGED <<result, previous_result, returned, scope, entry, body,
                       nEvents, nextId, runs>>

\* CustomErrorListener.syntaxError: the parser reports its first mismatch
syntaxError(text, line, column, e) ==
    LET expected_tokens ==
            IF ~e.isNone THEN get_expected_tokens(e.expected) ELSE <<>>
    IN  /\ pc = "parse"
        /\ nSyntaxErrors' = nSyntaxErrors + 1
        /\ last' = [handler |-> "syntaxError",
                    input |-> [text |-> text, line |-> line, column |-> column, e |-> e]]
        /\ pc' = "failed"
        /\ error' = [type |-> "RuntimeError", site |-> "syntaxError",
                     line |-> line, column |-> column + 1, received |-> text,
                     expected |-> expected_tokens, refs |-> {},
                     message |-> SyntaxErrorMessage(line, column + 1, text,
                                                    expected_tokens)]
        /\ UNCHANGED <<result, previous_result, returned, scope, entry, body,
                       nEvents, nextId, runs>>

\* parser.quil() returns a tree; PyQuilListener() is constructed
ParseTree ==
    /\ pc = "parse"
    /\ pc' = "walk"
    /\ result' = <<>>
    /\ previous_result' = NoneValue
    /\ UNCHANGED <<returned, error, scope, entry, body, nEvents, nextId,
                   nSyntaxErrors, last, ref, runs>>

\* the walk is over: run_parser returns pyquil_listener.result
Return ==
    /\ pc = "walk"
    /\ scope = "top"
    /\ pc' = "returned"
    /\ returned' = Some(result)
    /\ UNCHANGED <<result, previous_result, error, scope, entry, body, nEvents,
                   nextId, nSyntaxErrors, last, ref, runs>>

-----------------------------------------------------------------------------
(* Reference resolvers.                                                    *)

IntTexts == {"0", "1", "2"}

\* int(text) of a text of IntTexts
IntOf(text) == CASE text = "0" -> 0 [] text = "1" -> 1 [] text = "2" -> 2

\* _qubit: Qubit(int(text)); int raises ValueError on a text that is no number
_qubit(text) ==
    IF text \in IntTexts
    THEN [ok |-> TRUE, kind |-> "Qubit", index |-> IntOf(text), name |-> ""]
    ELSE [ok |-> FALSE, kind |-> "ValueError", index |-> 0, name |-> ""]

\* a faulty _formalQubit without the except clause
_formalQubit_reraising(text) == _qubit(text)

\* _formalQubit: _qubit, and FormalArgument(text) when that raised ValueError
_formalQubit(text) ==
    IF _qubit(text).ok THEN _qubit(text)
    ELSE [ok |-> TRUE, kind |-> "FormalArgument", index |-> 0, name |-> text]

-----------------------------------------------------------------------------
(* Instructions without arguments.                                         *)

exitHalt ==
    /\ Visit("exitHalt", <<>>)
    /\ AppendResult([op |-> "HALT"])
    /\ UNCHANGED <<pc, previous_result, returned, error, scope, entry>>

-----------------------------------------------------------------------------
(* Gate application: exitGate.                                             *)

\* the catalog pyquil.gates.QUANTUM_GATES, cut to one name
QUANTUM_GATES == {"RX"}

GateNames == {"RX", "G"}

\* the modifier keywords of Quil, and one keyword that is none of them
ModifierKeywords == {"CONTROLLED", "DAGGER", "FORKED", "PARAMETRIC"}

\* evaluated gate parameters, in tenths: 0.5 and 1.5
ParamValues == {5, 15}

QubitIndices == {0, 1}

\* Gate(name, params, qubits), also what a constructor of the catalog builds;
\* wrappers lists the modifier calls made on the gate, first call first
Gate(name, params, qubits) ==
    [name |-> name, params |-> params, qubits |-> qubits,
     primitive |-> name \in QUANTUM_GATES, wrappers |-> <<>>]

\* gate.controlled(qubit)
controlled(gate, qubit) ==
    [gate EXCEPT !.wrappers =
        Append(@, [kind |-> "CONTROLLED", qubits |-> <<qubit>>, params |-> <<>>])]

\* gate.dagger()
dagger(gate) ==
    [gate EXCEPT !.wrappers =
        Append(@, [kind |-> "DAGGER", qubits |-> <<>>, params |-> <<>>])]

\* gate.forked(qubit, alt_params)
forked(gate, qubit, alt_params) ==
    [gate EXCEPT !.wrappers =
        Append(@, [kind |-> "FORKED", qubits |-> <<qubit>>, params |-> alt_params])]

\* a faulty test: DAGGER takes a qubit too
TakesQubit_all(m) == m \in {"CONTROLLED", "FORKED", "DAGGER"}

\* m in ["CONTROLLED", "FORKED"]
TakesQubit(m) == m \in {"CONTROLLED", "FORKED"}

\* the loop that fills modifier_qubits; qubits[len(modifier_qubits)] raises
\* IndexError past the end of qubits
RECURSIVE modifier_qubits_loop(_, _, _)
modifier_qubits_loop(modifiers, qubits, modifier_qubits) ==
    IF modifiers = <<>> THEN [ok |-> TRUE, list |-> modifier_qubits]
    ELSE IF TakesQubit(Head(modifiers))
    THEN IF Len(modifier_qubits) >= Len(qubits)
         THEN [ok |-> FALSE, list |-> modifier_qubits]
         ELSE modifier_qubits_loop(Tail(modifiers), qubits,
                  Append(modifier_qubits, PyIndex(qubits, Len(modifier_qubits))))
    ELSE modifier_qubits_loop(Tail(modifiers), qubits, modifier_qubits)

\* qubits[len(modifier_qubits):]
base_qubits_of(qubits, modifier_qubits) ==
    PySlice(qubits, Len(modifier_qubits), Len(qubits))

\* a faulty offset: the parameters are halved once, however many FORKED
forked_offset_halved(params, modifiers) ==
    IF Count(modifiers, "FORKED") = 0 THEN Len(params)
    ELSE ShiftRight(Len(params), 1)

\* len(params) >> modifiers.count("FORKED")
forked_offset_of(params, modifiers) ==
    ShiftRight(Len(params), Count(modifiers, "FORKED"))

\* a faulty order: the modifiers are applied as written
modifiers_as_written(modifiers) == modifiers

\* modifiers[::-1]
modifiers_reversed(modifiers) == Reverse(modifiers)

\* a faulty window: every FORKED gets the parameters of the base gate
forked_window_from_start(params, forked_offset) ==
    PySlice(params, 0, forked_offset)

\* params[forked_offset : (2 * forked_offset)]
forked_window(params, forked_offset) ==
    PySlice(params, forked_offset, 2 * forked_offset)

\* a faulty pop: the first element is taken, as list.pop(0) does
pop_first(list) == [value |-> Head(list), list |-> Tail(list)]

\* list.pop(): the last element, and the list without it
pop(list) == [value |-> Last(list), list |-> Front(list)]

\* a faulty loop: a modifier that is none of the three is skipped
RECURSIVE apply_modifiers_lenient(_, _, _, _, _)
apply_modifiers_lenient(todo, gate, modifier_qubits, params, forked_offset) ==
    IF todo = <<>>
    THEN [ok |-> TRUE, gate |-> gate, modifier_qubits |-> modifier_qubits,
          modifier |-> ""]
    ELSE LET modifier == Head(todo)
         IN  CASE modifier = "CONTROLLED" ->
                    apply_modifiers_lenient(Tail(todo),
                        controlled(gate, Last(modifier_qubits)),
                        Front(modifier_qubits), params, forked_offset)
               [] modifier = "FORKED" ->
                    apply_modifiers_lenient(Tail(todo),
                        forked(gate, Last(modifier_qubits),
                               forked_window(params, forked_offset)),
                        Front(modifier_qubits), params, 2 * forked_offset)
               [] modifier = "DAGGER" ->
                    apply_modifiers_lenient(Tail(todo), dagger(gate),
                        modifier_qubits, params, forked_offset)
               [] OTHER ->
                    apply_modifiers_lenient(Tail(todo), gate, modifier_qubits,
                        params, forked_offset)

\* the loop over modifiers[::-1]; todo is what is left of that list.
\* An unknown modifier raises ValueError.
RECURSIVE apply_modifiers(_, _, _, _, _)
apply_modifiers(todo, gate, modifier_qubits, params, forked_offset) ==
    IF todo = <<>>
    THEN [ok |-> TRUE, gate |-> gate, modifier_qubits |-> modifier_qubits,
          modifier |-> ""]
    ELSE LET modifier == Head(todo)
         IN  CASE modifier = "CONTROLLED" ->
                    apply_modifiers(Tail(todo),
                        controlled(gate, pop(modifier_qubits).value),
                        pop(modifier_qubits).list, params, forked_offset)
               [] modifier = "DAGGER" ->
                    apply_modifiers(Tail(todo), dagger(gate), modifier_qubits,
                        params, forked_offset)
               [] modifier = "FORKED" ->
                    apply_modifiers(Tail(todo),
                        forked(gate, pop(modifier_qubits).value,
                               forked_window(params, forked_offset)),
                        pop(modifier_qubits).list, params, 2 * forked_offset)
               [] OTHER ->
                    [ok |-> FALSE, gate |-> gate,
                     modifier_qubits |-> modifier_qubits, modifier |-> modifier]

exitGate(gate_name, modifiers, params, qubits) ==
    LET loop == modifier_qubits_loop(modifiers, qubits, <<>>)
        modifier_qubits == loop.list
        base_qubits == base_qubits_of(qubits, modifier_qubits)
        forked_offset == forked_offset_of(params, modifiers)
        base_params == PySlice(params, 0, forked_offset)
        gate == Gate(gate_name, base_params, base_qubits)
        applied == apply_modifiers(modifiers_reversed(modifiers), gate,
                                   modifier_qubits, params, forked_offset)
    IN  /\ Visit("exitGate", [gate_name |-> gate_name, modifiers |-> modifiers,
                              params |-> params, qubits |-> qubits])
        /\ IF ~loop.ok
           THEN /\ Raise("IndexError", "exitGate", {}, "list index out of range")
                /\ UNCHANGED <<result, nextId, body>>
           ELSE IF ~applied.ok
           THEN /\ Raise("ValueError", "exitGate", {},
                         "Unsupported gate modifier " \o applied.modifier \o ".")
                /\ UNCHANGED <<result, nextId, body>>
           ELSE /\ AppendResult([op |-> "GATE", gate |-> applied.gate])
                /\ UNCHANGED <<pc, returned, error>>
        /\ UNCHANGED <<previous_result, scope, entry>>

\* every gate application within the bounds
GateInputs ==
    [gate_name : GateNames,
     modifiers : SeqsUpTo(ModifierKeywords, MaxMods),
     params : SeqsUpTo(ParamValues, MaxParams),
     qubits : SeqsUpTo(QubitIndices, MaxQubits) \ {<<>>}]

\* the gate applications of the programs walked: X-like G 0, CONTROLLED G 0 1,
\* FORKED RX(0.5, 1.5) 0 1, and CONTROLLED CONTROLLED G 0
WalkGateInputs ==
    {[gate_name |-> "G", modifiers |-> <<>>, params |-> <<>>, qubits |-> <<0>>],
     [gate_name |-> "G", modifiers |-> <<"CONTROLLED">>, params |-> <<>>,
      qubits |-> <<0, 1>>],
     [gate_name |-> "RX", modifiers |-> <<"FORKED">>, params |-> <<5, 15>>,
      qubits |-> <<0, 1>>],
     [gate_name |-> "G", modifiers |-> <<"CONTROLLED", "CONTROLLED">>,
      params |-> <<>>, qubits |-> <<0>>]}

-----------------------------------------------------------------------------
(* How an instruction prints: instr.out().                                 *)

RECURSIVE Flatten(_)
Flatten(lists) ==
    IF lists = <<>> THEN <<>> ELSE Head(lists) \o Flatten(Tail(lists))

\* a parameter in tenths as a decimal
ParamText(p) == ToString(p \div 10) \o "." \o ToString(p % 10)

\* Gate.out(): the modifiers outermost first, the name, the parameters, the qubits
GateOut(gate) ==
    LET outer == Reverse(gate.wrappers)
        mods == [i \in 1..Len(outer) |-> outer[i].kind \o " "]
        params == gate.params
                    \o Flatten([i \in 1..Len(gate.wrappers) |-> gate.wrappers[i].params])
        qubits == Flatten([i \in 1..Len(outer) |-> outer[i].qubits]) \o gate.qubits
    IN  Join("", mods) \o gate.name
            \o (IF params = <<>> THEN ""
                ELSE "(" \o Join(", ", [i \in 1..Len(params) |-> ParamText(params[i])])
                         \o ")")
            \o " " \o Join(" ", [i \in 1..Len(qubits) |-> ToString(qubits[i])])

Out(instr) ==
    CASE instr.op = "HALT" -> "HALT"
      [] instr.op = "GATE" -> GateOut(instr.gate)
      [] instr.op = "RAW" -> instr.text
      [] OTHER -> instr.op

-----------------------------------------------------------------------------
(* Scoped definitions: DEFCIRCUIT, DEFCAL, DEFCAL MEASURE.                 *)

\* evaluated DEFCAL parameters, each with the memory references it contains
CalParams ==
    {[text |-> "%theta", mrefs |-> {}],
     [text |-> "theta", mrefs |-> {"theta[0]"}],
     [text |-> "2*beta[1]+theta", mrefs |-> {"beta[1]", "theta[0]"}]}

\* pyquil.quilatom._contained_mrefs
_contained_mrefs(p) == p.mrefs

\* a faulty enter handler: the outer buffer is saved, and stays the current one
enter_keeping_result ==
    /\ previous_result' = Some(result)
    /\ result' = result
    /\ entry' = result
    /\ body' = <<>>
    /\ UNCHANGED <<pc, returned, error, nextId>>

\* self.previous_result = self.result; self.result = []
enterDef ==
    /\ previous_result' = Some(result)
    /\ result' = <<>>
    /\ entry' = result
    /\ body' = <<>>
    /\ UNCHANGED <<pc, returned, error, nextId>>

enterDefCircuit ==
    /\ Visit("enterDefCircuit", <<>>)
    /\ enterDef
    /\ scope' = "DefCircuit"

enterDefCalibration ==
    /\ Visit("enterDefCalibration", <<>>)
    /\ enterDef
    /\ scope' = "DefCalibration"

enterDefMeasCalibration ==
    /\ Visit("enterDefMeasCalibration", <<>>)
    /\ enterDef
    /\ scope' = "DefMeasCalibration"

\* None.append raises AttributeError
NoneAppend(site) ==
    Raise("AttributeError", site, {}, "'NoneType' object has no attribute 'append'")

\* a faulty restore: the definition is appended, the slot is not cleared
restore_keeping_slot(saved, instr) ==
    /\ result' = Append(saved, [id |-> nextId] @@ instr)
    /\ previous_result' = previous_result
    /\ nextId' = nextId + 1
    /\ UNCHANGED <<pc, returned, error>>

\* a faulty restore: the definition is appended to the body, not to the
\* saved buffer
restore_into_body(saved, instr) ==
    /\ result' = Append(result, [id |-> nextId] @@ instr)
    /\ previous_result' = NoneValue
    /\ nextId' = nextId + 1
    /\ UNCHANGED <<pc, returned, error>>

\* a faulty restore: the definition starts a new buffer and the saved one is
\* lost
restore_dropping_saved(saved, instr) ==
    /\ result' = <<[id |-> nextId] @@ instr>>
    /\ previous_result' = NoneValue
    /\ nextId' = nextId + 1
    /\ UNCHANGED <<pc, returned, error>>

\* self.result = self.previous_result; self.previous_result = None;
\* self.result.append(instr), instr being newly constructed
restore_and_append(saved, instr) ==
    /\ result' = Append(saved, [id |-> nextId] @@ instr)
    /\ previous_result' = NoneValue
    /\ nextId' = nextId + 1
    /\ UNCHANGED <<pc, returned, error>>

DefCircuitHeader(circuit_name, variables, qubitVariables) ==
    LET space == IF qubitVariables # <<>> THEN " " ELSE ""
    IN  IF variables # <<>>
        THEN "DEFCIRCUIT " \o circuit_name \o "(" \o Join(", ", variables) \o ")"
                \o space \o Join(" ", qubitVariables) \o ":"
        ELSE "DEFCIRCUIT " \o circuit_name \o space \o Join(" ", qubitVariables)
                \o ":"

\* "\n    ".join([""] + [instr.out() for instr in instrs])
DefCircuitBody(instrs) ==
    Join("\n    ", <<"">> \o [i \in 1..Len(instrs) |-> Out(instrs[i])])

exitDefCircuit(circuit_name, variables, qubitVariables) ==
    LET raw_defcircuit ==
            DefCircuitHeader(circuit_name, variables, qubitVariables)
                \o DefCircuitBody(result)
    IN  /\ Visit("exitDefCircuit",
                 [circuit_name |-> circuit_name, variables |-> variables,
                  qubitVariables |-> qubitVariables])
        /\ IF previous_result.isNone
           THEN /\ NoneAppend("exitDefCircuit")
                /\ UNCHANGED <<result, previous_result, nextId, scope>>
           ELSE /\ restore_and_append(previous_result.list,
                                      [op |-> "RAW", text |-> raw_defcircuit])
                /\ scope' = "top"
        /\ UNCHANGED <<entry, body>>

\* a faulty check: only the first parameter is looked at
FirstWithMrefs_head(parameters) ==
    IF parameters # <<>> /\ _contained_mrefs(parameters[1]) # {} THEN 1 ELSE 0

\* the first parameter that contains memory references, 0 when none does
FirstWithMrefs(parameters) ==
    IF \E i \in 1..Len(parameters) : _contained_mrefs(parameters[i]) # {}
    THEN CHOOSE i \in 1..Len(parameters) :
            /\ _contained_mrefs(parameters[i]) # {}
            /\ \A j \in 1..(i - 1) : _contained_mrefs(parameters[j]) = {}
    ELSE 0

exitDefCalibration(name, parameters, qubit_texts) ==
    LET bad == FirstWithMrefs(parameters)
        qubits == [i \in 1..Len(qubit_texts) |-> _formalQubit(qubit_texts[i])]
        instrs == result
    IN  /\ Visit("exitDefCalibration",
                 [name |-> name, parameters |-> parameters, qubits |-> qubit_texts])
        /\ IF bad # 0
           THEN /\ Raise("ValueError", "exitDefCalibration",
                         _contained_mrefs(parameters[bad]),
                         "Unexpected memory references in DEFCAL " \o name
                            \o ". Did you forget a '%'?")
                /\ UNCHANGED <<result, previous_result, nextId, scope>>
           ELSE IF previous_result.isNone
           THEN /\ NoneAppend("exitDefCalibration")
                /\ UNCHANGED <<result, previous_result, nextId, scope>>
           ELSE /\ restore_and_append(previous_result.list,
                        [op |-> "DEFCAL", name |-> name, parameters |-> parameters,
                         qubits |-> qubits, instrs |-> instrs])
                /\ scope' = "top"
        /\ UNCHANGED <<entry, body>>

\* name is "" when the DEFCAL MEASURE names no memory reference
exitDefMeasCalibration(name, qubit_text) ==
    LET memory_reference ==
            IF name # "" THEN [isNone |-> FALSE, name |-> name]
            ELSE [isNone |-> TRUE, name |-> ""]
        qubit == _formalQubit(qubit_text)
        instrs == result
    IN  /\ Visit("exitDefMeasCalibration", [name |-> name, qubit |-> qubit_text])
        /\ IF previous_result.isNone
           THEN /\ NoneAppend("exitDefMeasCalibration")
                /\ UNCHANGED <<result, previous_result, nextId, scope>>
           ELSE /\ restore_and_append(previous_result.list,
                        [op |-> "DEFCAL MEASURE", qubit |-> qubit,
                         memory_reference |-> memory_reference, instrs |-> instrs])
                /\ scope' = "top"
        /\ UNCHANGED <<entry, body>>

-----------------------------------------------------------------------------
(* A listener that keeps a stack of buffers: an enter event pushes the     *)
(* current buffer and starts an empty one, the exit event of a definition  *)
(* pops the buffer and appends the definition, built from the body this    *)
(* listener gathered.  It gets the events that PyQuilListener gets and the *)
(* objects that the handlers build.                                        *)

RefAppend(r, obj) == [r EXCEPT !.result = Append(@, obj)]

RefPush(r) == [result |-> <<>>, stack |-> Append(r.stack, r.result)]

RefPop(r, definition) ==
    [result |-> Append(Last(r.stack), definition), stack |-> Front(r.stack)]

\* the definition of the handler, with the body r.result
RefDefinition(r, obj, handler, input) ==
    IF handler = "exitDefCircuit"
    THEN [obj EXCEPT !.text =
            DefCircuitHeader(input.circuit_name, input.variables,
                             input.qubitVariables) \o DefCircuitBody(r.result)]
    ELSE [obj EXCEPT !.instrs = r.result]

EnterHandlers ==
    {"enterDefCircuit", "enterDefCalibration", "enterDefMeasCalibration"}

DefinitionHandlers ==
    {"exitDefCircuit", "exitDefCalibration", "exitDefMeasCalibration"}

\* the step of the listener with the stack on the event of this step; a
\* handler that raises ends the walk for both listeners
RefStep ==
    ref' = IF nEvents' = nEvents \/ pc' = "failed" \/ error' # error THEN ref
           ELSE IF last'.handler \in EnterHandlers THEN RefPush(ref)
           ELSE IF last'.handler \in DefinitionHandlers
           THEN RefPop(ref, RefDefinition(ref, Last(result'), last'.handler,
                                          last'.input))
           ELSE RefAppend(ref, Last(result'))

-----------------------------------------------------------------------------
(* The programs walked.  The grammar puts a definition at the top level    *)
(* only, so that a body holds instructions and no definition; the walker   *)
(* pairs every enter event with the exit event of the same node.           *)

CircuitInputs ==
    {[circuit_name |-> "BELL", variables |-> <<>>, qubitVariables |-> <<"a", "b">>],
     [circuit_name |-> "ROT", variables |-> <<"%t">>, qubitVariables |-> <<>>]}

CalInputs ==
    [name : {"RX"}, parameters : SeqsUpTo(CalParams, MaxCalParams),
     qubits : {<<"0", "q">>}]

MeasCalInputs == [name : {"", "addr"}, qubit : {"q"}]

SyntaxError ==
    \E text \in OffendingTexts, line \in 1..MaxLine, column \in 0..MaxColumn,
       e \in Exceptions :
        syntaxError(text, line, column, e) /\ RefStep

HaltNode == nEvents < MaxEvents /\ exitHalt /\ RefStep

GateNode ==
    /\ nEvents < MaxEvents
    /\ \E g \in WalkGateInputs :
            exitGate(g.gate_name, g.modifiers, g.params, g.qubits)
    /\ RefStep

DefCircuitEnter ==
    nEvents < MaxEvents /\ scope = "top" /\ enterDefCircuit /\ RefStep

DefCircuitExit ==
    /\ scope = "DefCircuit"
    /\ \E c \in CircuitInputs :
            exitDefCircuit(c.circuit_name, c.variables, c.qubitVariables)
    /\ RefStep

DefCalibrationEnter ==
    nEvents < MaxEvents /\ scope = "top" /\ enterDefCalibration /\ RefStep

DefCalibrationExit ==
    /\ scope = "DefCalibration"
    /\ \E c \in CalInputs : exitDefCalibration(c.name, c.parameters, c.qubits)
    /\ RefStep

DefMeasCalibrationEnter ==
    nEvents < MaxEvents /\ scope = "top" /\ enterDefMeasCalibration /\ RefStep

DefMeasCalibrationExit ==
    /\ scope = "DefMeasCalibration"
    /\ \E c \in MeasCalInputs : exitDefMeasCalibration(c.name, c.qubit)
    /\ RefStep

Next ==
    \/ SyntaxError
    \/ ParseTree
    \/ HaltNode
    \/ GateNode
    \/ DefCircuitEnter
    \/ DefCircuitExit
    \/ DefCalibrationEnter
    \/ DefCalibrationExit
    \/ DefMeasCalibrationEnter
    \/ DefMeasCalibrationExit
    \/ Return

Spec == Init /\ [][Next]_vars

-----------------------------------------------------------------------------
(* The walk of a program of at most one gate application, over every gate  *)
(* application within the bounds.                                          *)

\* the state after step 2 of run_parser: the tree is parsed, the listener new
InitWalk ==
    /\ pc = "walk"
    /\ result = <<>>
    /\ previous_result = NoneValue
    /\ returned = NoneValue
    /\ error = NoError
    /\ scope = "top"
    /\ entry = <<>>
    /\ body = <<>>
    /\ nEvents = 0
    /\ nextId = 0
    /\ nSyntaxErrors = 0
    /\ last = [handler |-> "none"]
    /\ ref = [result |-> <<>>, stack |-> <<>>]
    /\ runs = NoRuns

OneGateNode ==
    /\ nEvents = 0
    /\ \E g \in GateInputs :
            exitGate(g.gate_name, g.modifiers, g.params, g.qubits)
    /\ RefStep

NextGate ==
    \/ OneGateNode
    \/ Return

GateSpec == InitWalk /\ [][NextGate]_vars

-----------------------------------------------------------------------------
(* Properties of the scoped definitions.                                   *)

Ids(instrs) == {instrs[i].id : i \in 1..Len(instrs)}

ExitedDefinition(handler) == last.handler = handler /\ pc # "failed"

\* C1: a DEFCAL that is entered and exited without an error leaves the
\* current buffer equal to what it was at the enter event, same entries in
\* the same order, plus one new DefCalibration at the end; no instruction
\* built inside the body is an element of it.
C1_CalibrationRestoresOuterBuffer ==
    ExitedDefinition("exitDefCalibration") =>
        /\ Len(result) = Len(entry) + 1
        /\ SubSeq(result, 1, Len(entry)) = entry
        /\ Last(result).op = "DEFCAL"
        /\ Last(result).id \notin Ids(entry) \cup Ids(body)
        /\ Ids(result) \cap Ids(body) = {}

C1_Witness ==
    /\ ExitedDefinition("exitDefCalibration")
    /\ Len(entry) >= 1
    /\ Len(body) >= 2
    /\ \E i \in 1..Len(entry) : entry[i].op = "HALT"
    /\ \E i \in 1..Len(body) : body[i].op = "HALT"

\* C2: the instruction a DEFCIRCUIT, DEFCAL or DEFCAL MEASURE appends on its
\* exit carries the instructions appended between its enter and its exit
\* event, all of them in the order of their appending (a circuit carries them
\* printed, one line each); the buffer is empty right after the enter event,
\* whatever the outer buffer holds.
C2_DefinitionCarriesItsBody ==
    /\ (ExitedDefinition("exitDefCalibration")
            \/ ExitedDefinition("exitDefMeasCalibration")) =>
            Last(result).instrs = body
    /\ ExitedDefinition("exitDefCircuit") =>
            Last(result).text =
                DefCircuitHeader(last.input.circuit_name, last.input.variables,
                                 last.input.qubitVariables)
                    \o Join("", [i \in 1..Len(body) |-> "\n    " \o Out(body[i])])
    /\ last.handler \in {"enterDefCircuit", "enterDefCalibration",
                         "enterDefMeasCalibration"} =>
            result = <<>> /\ body = <<>>

C2_Witness ==
    /\ ExitedDefinition("exitDefCircuit")
    /\ Len(entry) >= 1
    /\ Len(body) = 2
    /\ body[1].op = "GATE"
    /\ body[2].op = "HALT"

\* C3: the saved slot previous_result is None when the walk starts, holds a
\* buffer exactly while the walk is between the enter event of a definition
\* and its exit without an error, and is None when run_parser returns.
C3_SaveRestorePaired ==
    /\ previous_result.isNone <=> scope = "top"
    /\ nEvents = 0 => previous_result.isNone
    /\ pc = "returned" => previous_result.isNone

C3_Witness ==
    /\ ExitedDefinition("exitDefMeasCalibration")
    /\ pc = "returned"
    /\ previous_result.isNone
    /\ Len(body) >= 1
    /\ Len(result) >= 2

HasMrefs(parameters) ==
    \E i \in 1..Len(parameters) : parameters[i].mrefs # {}

-----------------------------------------------------------------------------
(* Properties of run_parser and of the error listener.                     *)

\* C5: an error raised by a handler during the walk aborts the parse: no
\* handler runs after it, and run_parser returns nothing, neither the
\* instructions built before the error nor the body being filled.
C5_BuildErrorAbortsParse ==
    /\ [](error.type # "none" => pc = "failed" /\ returned.isNone)
    /\ [][pc = "failed" => UNCHANGED vars]_vars

C5_Witness ==
    /\ pc = "failed"
    /\ error.site = "exitGate"
    /\ scope = "DefCalibration"
    /\ Len(entry) >= 1
    /\ Len(body) >= 1
    /\ returned.isNone

\* C6: the first syntax error is raised as one RuntimeError whose line is
\* the line the parser gives and whose column is the column the parser gives
\* plus one; nothing runs after it: there is one syntax error at most, no
\* handler of the walk has run, and run_parser returns nothing.
C6_SyntaxErrorIsFatal ==
    /\ nSyntaxErrors <= 1
    /\ nSyntaxErrors = 1 =>
        /\ last.handler = "syntaxError"
        /\ pc = "failed"
        /\ error.type = "RuntimeError"
        /\ error.line = last.input.line
        /\ error.column = last.input.column + 1
        /\ error.received = last.input.text
        /\ nEvents = 0
        /\ result = <<>>
        /\ returned.isNone

C6_Witness ==
    /\ nSyntaxErrors = 1
    /\ last.input.line = 3
    /\ last.input.column = 5
    /\ error.line = 3
    /\ error.column = 6

\* the name of a token type: its literal form when it has one, its symbolic
\* name otherwise
HasLiteral(tok) == literalNames[tok + 1] # "<INVALID>"

TokenName(tok) ==
    IF HasLiteral(tok) THEN literalNames[tok + 1] ELSE symbolicNames[tok + 1]

ExpectedNamesMatch(tokens) ==
    /\ Len(error.expected) = Len(tokens)
    /\ \A i \in 1..Len(tokens) : error.expected[i] = TokenName(tokens[i])

-----------------------------------------------------------------------------
(* Properties of exitGate.                                                 *)

AppliedGate == last.handler = "exitGate" /\ pc # "failed"

\* the number of CONTROLLED and FORKED entries of a modifier list
QubitModifiers(modifiers) ==
    Count(modifiers, "CONTROLLED") + Count(modifiers, "FORKED")

RECURSIVE SumLen(_)
SumLen(lists) ==
    IF lists = <<>> THEN 0 ELSE Len(Head(lists)) + SumLen(Tail(lists))

\* C8: in a gate application with modifiers M and qubits Q the modifiers
\* take as many leading qubits as M has CONTROLLED and FORKED entries, one
\* each and none for a DAGGER, and the base gate gets the rest of Q in order.
C8_ModifiersConsumeLeadingQubits ==
    AppliedGate =>
        LET M == last.input.modifiers
            Q == last.input.qubits
            k == QubitModifiers(M)
            gate == Last(result).gate
            w == gate.wrappers
        IN  /\ k <= Len(Q)
            /\ SumLen([i \in 1..Len(w) |-> w[i].qubits]) = k
            /\ \A i \in 1..Len(w) :
                    Len(w[i].qubits) = IF w[i].kind = "DAGGER" THEN 0 ELSE 1
            /\ \A i \in 1..Len(w) :
                    \A j \in 1..Len(w[i].qubits) :
                        \E q \in 1..k : w[i].qubits[j] = Q[q]
            /\ Len(gate.qubits) = Len(Q) - k
            /\ \A i \in 1..Len(gate.qubits) : gate.qubits[i] = Q[k + i]

C8_Witness ==
    /\ AppliedGate
    /\ last.input.modifiers = <<"DAGGER", "FORKED">>
    /\ last.input.qubits = <<1, 0, 1>>
    /\ Last(result).gate.qubits = <<0, 1>>

\* C9: the modifiers are applied in the reverse of their written order, the
\* one written last wrapping the bare gate first: the wrappers of the gate
\* are the written list reversed, so DAGGER CONTROLLED G and
\* CONTROLLED DAGGER G get different wrapper sequences.
C9_ModifiersAppliedInReverse ==
    AppliedGate =>
        LET M == last.input.modifiers
            w == Last(result).gate.wrappers
        IN  /\ Len(w) = Len(M)
            /\ \A i \in 1..Len(M) : w[i].kind = M[Len(M) + 1 - i]
            /\ M = <<"DAGGER", "CONTROLLED">> =>
                    <<w[1].kind, w[2].kind>> = <<"CONTROLLED", "DAGGER">>
            /\ M = <<"CONTROLLED", "DAGGER">> =>
                    <<w[1].kind, w[2].kind>> = <<"DAGGER", "CONTROLLED">>

C9_Witness ==
    /\ AppliedGate
    /\ last.input.modifiers = <<"DAGGER", "CONTROLLED">>
    /\ Last(result).gate.wrappers[1].kind = "CONTROLLED"
    /\ Last(result).gate.wrappers[2].kind = "DAGGER"

\* the wrappers of kind FORKED, in the order of their application
RECURSIVE Forks(_)
Forks(wrappers) ==
    IF wrappers = <<>> THEN <<>>
    ELSE IF Head(wrappers).kind = "FORKED"
    THEN <<Head(wrappers)>> \o Forks(Tail(wrappers))
    ELSE Forks(Tail(wrappers))

\* C10: with n parameters and f FORKED modifiers the base gate gets the
\* first n >> f parameters, and the j-th FORKED applied gets the window that
\* starts right after all the parameters handed out before it and is as long
\* as their number; the windows do not overlap, and FORKED RX(0.5, 1.5) 0 1
\* gives the base gate [0.5] and the fork [1.5].
C10_ForkedParameterWindows ==
    AppliedGate =>
        LET M == last.input.modifiers
            P == last.input.params
            f == Count(M, "FORKED")
            base == Len(P) \div Pow2(f)
            gate == Last(result).gate
            forks == Forks(gate.wrappers)
        IN  /\ Len(gate.params) = base
            /\ \A i \in 1..base : gate.params[i] = P[i]
            /\ Len(forks) = f
            /\ \A j \in 1..f :
                    LET used == base * Pow2(j - 1)
                    IN  /\ Len(forks[j].params) = used
                        /\ 2 * used <= Len(P)
                        /\ \A i \in 1..used : forks[j].params[i] = P[used + i]
            /\ (M = <<"FORKED">> /\ P = <<5, 15>>) =>
                    gate.params = <<5>> /\ forks[1].params = <<15>>

C10_Witness ==
    /\ AppliedGate
    /\ last.input.modifiers = <<"FORKED", "FORKED">>
    /\ last.input.params = <<5, 15, 15, 5>>
    /\ Last(result).gate.params = <<5>>
    /\ Last(result).gate.wrappers[1].params = <<15>>
    /\ Last(result).gate.wrappers[2].params = <<15, 5>>

\* a step that is a call of exitGate
GateStep == last'.handler = "exitGate" /\ nEvents' = nEvents + 1

HasUnsupported(modifiers) ==
    \E i \in 1..Len(modifiers) :
        modifiers[i] \notin {"CONTROLLED", "DAGGER", "FORKED"}

\* C11: a gate application with a modifier that is none of CONTROLLED,
\* DAGGER and FORKED raises an error and appends nothing to the current
\* buffer; a gate application that raises nothing appends one gate to the
\* current buffer and changes nothing else of the listener.
C11_UnsupportedModifierIsFatal ==
    [][GateStep =>
        LET M == last'.input.modifiers
        IN  /\ HasUnsupported(M) =>
                /\ pc' = "failed"
                /\ error'.site = "exitGate"
                /\ error'.type =
                        IF QubitModifiers(M) > Len(last'.input.qubits)
                        THEN "IndexError" ELSE "ValueError"
            /\ pc' = "failed" =>
                /\ result' = result
                /\ previous_result' = previous_result
                /\ nextId' = nextId
                /\ returned' = returned
            /\ pc' # "failed" =>
                /\ Len(result') = Len(result) + 1
                /\ SubSeq(result', 1, Len(result)) = result
                /\ Last(result').op = "GATE"
                /\ Last(result').id = nextId
                /\ previous_result' = previous_result
                /\ pc' = pc
                /\ error' = error
                /\ returned' = returned]_vars

C11_Witness ==
    /\ last.handler = "exitGate"
    /\ pc = "failed"
    /\ error.type = "ValueError"
    /\ error.message = "Unsupported gate modifier PARAMETRIC."
    /\ last.input.modifiers = <<"PARAMETRIC", "CONTROLLED">>
    /\ result = <<>>

-----------------------------------------------------------------------------
(* Handlers of single instructions, each walked as a one-instruction      *)
(* program.                                                               *)

\* the texts of formalQubit nodes: INT tokens and IDENTIFIER tokens
IdentifierTexts == {"q", "_1"}
QubitTexts == IntTexts \cup IdentifierTexts

\* a ValueError that left _formalQubit would leave the handler as well
FirstNotOk(list) ==
    IF \E i \in 1..Len(list) : ~list[i].ok
    THEN CHOOSE i \in 1..Len(list) :
            /\ ~list[i].ok
            /\ \A j \in 1..(i - 1) : list[j].ok
    ELSE 0

exitFence(qubit_texts) ==
    LET qubits == [i \in 1..Len(qubit_texts) |-> _formalQubit(qubit_texts[i])]
    IN  /\ Visit("exitFence", [qubits |-> qubit_texts])
        /\ IF FirstNotOk(qubits) # 0
           THEN /\ Raise(qubits[FirstNotOk(qubits)].kind, "_qubit", {},
                         "invalid literal for int() with base 10")
                /\ UNCHANGED <<result, nextId, body>>
           ELSE /\ AppendResult([op |-> "FENCE", qubits |-> qubits])
                /\ UNCHANGED <<pc, returned, error>>
        /\ UNCHANGED <<previous_result, scope, entry>>

FenceInputs == SeqsUpTo(QubitTexts, MaxQubits) \ {<<>>}

FenceNode ==
    /\ nEvents = 0
    /\ \E q \in FenceInputs : exitFence(q)
    /\ RefStep

\* C12: _formalQubit answers every formalQubit text: a text of digits gives
\* the Qubit of that index, an identifier gives the FormalArgument of the
\* same text, and no exception leaves the handler that called it.
C12_FormalQubitIsTotal ==
    last.handler = "exitFence" =>
        /\ pc # "failed"
        /\ error = NoError
        /\ Len(result) = 1
        /\ result[1].op = "FENCE"
        /\ Len(result[1].qubits) = Len(last.input.qubits)
        /\ \A i \in 1..Len(last.input.qubits) :
            LET text == last.input.qubits[i]
                q == result[1].qubits[i]
            IN  /\ text \in {"0", "1", "2"} =>
                    /\ q.kind = "Qubit"
                    /\ ToString(q.index) = text
                /\ text \in {"q", "_1"} =>
                    /\ q.kind = "FormalArgument"
                    /\ q.name = text

C12_Witness ==
    /\ last.handler = "exitFence"
    /\ last.input.qubits = <<"2", "_1", "q">>
    /\ Len(result) = 1
    /\ result[1].qubits[1].kind = "Qubit"
    /\ result[1].qubits[2].kind = "FormalArgument"

-----------------------------------------------------------------------------
(* Token texts.  The text of a token is the sequence of its characters.   *)

\* str of a text
Str(chars) == Join("", chars)

DigitValue(c) ==
    CASE c = "0" -> 0 [] c = "1" -> 1 [] c = "2" -> 2 [] c = "3" -> 3
      [] c = "4" -> 4 [] c = "5" -> 5 [] c = "6" -> 6 [] c = "7" -> 7
      [] c = "8" -> 8 [] c = "9" -> 9

RECURSIVE Pow(_, _)
Pow(b, n) == IF n = 0 THEN 1 ELSE b * Pow(b, n - 1)

\* int(text) of the text of an INT token
RECURSIVE PyInt(_)
PyInt(chars) ==
    IF chars = <<>> THEN 0
    ELSE 10 * PyInt(Front(chars)) + DigitValue(Last(chars))

\* the place of the "." in the text of a FLOAT token
DotAt(chars) == CHOOSE i \in 1..Len(chars) : chars[i] = "."

-----------------------------------------------------------------------------
(* Values of expressions.  A Python int or float is the fraction num/den  *)
(* with den > 0.  den = 0 marks a value that is not computed here (a      *)
(* complex number, pi, the result of a numpy.ma function, a power with a  *)
(* fractional exponent); zero then tells whether it is known to be zero.  *)
(* An Expression is a symbolic value of pyquil.quilatom.                  *)

Number(type, num, den) ==
    [ok |-> TRUE, type |-> type, num |-> num, den |-> den,
     zero |-> IF num = 0 THEN "yes" ELSE "no", text |-> ""]

NotComputed(type, zero) ==
    [ok |-> TRUE, type |-> type, num |-> 0, den |-> 0, zero |-> zero,
     text |-> ""]

Symbolic(text) ==
    [ok |-> TRUE, type |-> "Expression", num |-> 0, den |-> 0,
     zero |-> "unknown", text |-> text]

\* an exception raised while evaluating
Raised(type, message) ==
    [ok |-> FALSE, type |-> type, num |-> 0, den |-> 0, zero |-> "unknown",
     text |-> message]

\* an outcome this model does not decide
Undetermined == Raised("Undetermined", "")

PythonTypes == {"int", "float", "complex"}

\* the type of the result of an arithmetic operator on two Python numbers
JoinType(t1, t2) ==
    IF "complex" \in {t1, t2} THEN "complex"
    ELSE IF "float" \in {t1, t2} THEN "float"
    ELSE "int"

\* a fraction with a positive denominator
Fraction(type, num, den) ==
    IF den < 0 THEN Number(type, 0 - num, 0 - den) ELSE Number(type, num, den)

IsIntegral(v) == v.den # 0 /\ v.num % v.den = 0

operator_add(a, b) ==
    Number(JoinType(a.type, b.type), a.num * b.den + b.num * a.den,
           a.den * b.den)

operator_sub(a, b) ==
    Number(JoinType(a.type, b.type), a.num * b.den - b.num * a.den,
           a.den * b.den)

operator_mul(a, b) ==
    Number(JoinType(a.type, b.type), a.num * b.num, a.den * b.den)

operator_truediv(a, b) ==
    IF b.num = 0
    THEN Raised("ZeroDivisionError",
                IF JoinType(a.type, b.type) = "int" THEN "division by zero"
                ELSE "float division by zero")
    ELSE Fraction("float", a.num * b.den, a.den * b.num)

\* a ** b: exact for an integral exponent
operator_pow(a, b) ==
    IF IsIntegral(b)
    THEN LET n == b.num \div b.den
         IN  IF n >= 0
             THEN Number(JoinType(a.type, b.type), Pow(a.num, n), Pow(a.den, n))
             ELSE IF a.num = 0
             THEN Raised("ZeroDivisionError",
                         "0.0 cannot be raised to a negative power")
             ELSE Fraction("float", Pow(a.den, 0 - n), Pow(a.num, 0 - n))
    ELSE IF a.num = 0
    THEN IF b.num > 0 THEN Number("float", 0, 1)
         ELSE Raised("ZeroDivisionError",
                     "0.0 cannot be raised to a negative power")
    ELSE NotComputed(IF a.num < 0 THEN "complex" ELSE "float", "no")

\* op(a, b) of the operator module on two values
Apply(op, a, b) ==
    IF "Expression" \in {a.type, b.type}
    THEN IF {a.type, b.type} \subseteq PythonTypes \cup {"Expression"}
         THEN Symbolic(op)
         ELSE Undetermined
    ELSE IF a.den # 0 /\ b.den # 0
    THEN CASE op = "add" -> operator_add(a, b)
           [] op = "sub" -> operator_sub(a, b)
           [] op = "mul" -> operator_mul(a, b)
           [] op = "truediv" -> operator_truediv(a, b)
           [] op = "pow" -> operator_pow(a, b)
    ELSE IF {a.type, b.type} \subseteq PythonTypes
    THEN CASE op = "mul" ->
                IF "yes" \in {a.zero, b.zero}
                THEN NotComputed(JoinType(a.type, b.type), "yes")
                ELSE IF a.zero = "no" /\ b.zero = "no"
                THEN NotComputed(JoinType(a.type, b.type), "no")
                ELSE NotComputed(JoinType(a.type, b.type), "unknown")
           [] op = "truediv" ->
                IF b.zero = "yes"
                THEN Raised("ZeroDivisionError",
                            IF JoinType(a.type, b.type) = "complex"
                            THEN "complex division by zero"
                            ELSE "float division by zero")
                ELSE IF b.zero = "no"
                THEN NotComputed(IF JoinType(a.type, b.type) = "int"
                                 THEN "float" ELSE JoinType(a.type, b.type),
                                 a.zero)
                ELSE Undetermined
           [] op \in {"add", "sub"} ->
                IF b.zero = "yes"
                THEN NotComputed(JoinType(a.type, b.type), a.zero)
                ELSE IF a.zero = "yes"
                THEN NotComputed(JoinType(a.type, b.type), b.zero)
                ELSE NotComputed(JoinType(a.type, b.type), "unknown")
           [] op = "pow" -> Undetermined
    ELSE Undetermined

-----------------------------------------------------------------------------
(* Expression nodes of the parse tree.  kind is the class of the context, *)
(* token the token (or alternative) that the node carries, "NONE" when it *)
(* carries none of those its handler asks for; name and chars are the     *)
(* texts of its IDENTIFIER and of its number; args are its                *)
(* sub-expressions.                                                       *)

Node(kind, token, minus, name, chars, args) ==
    [kind |-> kind, token |-> token, minus |-> minus, name |-> name,
     chars |-> chars, args |-> args]

NumberNode(minus, form, chars) ==
    Node("NumberExp", form, minus, <<>>, chars, <<>>)
VariableNode(name) == Node("VariableExp", "IDENTIFIER", FALSE, name, <<>>, <<>>)
AddrNode(form, name, chars) == Node("AddrExp", form, FALSE, name, chars, <<>>)
ParenNode(e) == Node("ParenthesisExp", "", FALSE, <<>>, <<>>, <<e>>)
SignedNode(sign, e) == Node("SignedExp", sign, FALSE, <<>>, <<>>, <<e>>)
FunctionNode(func, e) == Node("FunctionExp", func, FALSE, <<>>, <<>>, <<e>>)
BinaryNode(kind, token, a, b) == Node(kind, token, FALSE, <<>>, <<>>, <<a, b>>)

\* the text of an operator, sign or function token
TokenText(token) ==
    CASE token = "POWER" -> "^" [] token = "TIMES" -> "*"
      [] token = "DIVIDE" -> "/" [] token = "PLUS" -> "+"
      [] token = "MINUS" -> "-" [] token = "SIN" -> "SIN"
      [] token = "COS" -> "COS" [] token = "SQRT" -> "SQRT"
      [] token = "EXP" -> "EXP" [] token = "CIS" -> "CIS"
      [] OTHER -> ""

\* getText(): the texts of the tokens under the node, one after the other
RECURSIVE getText(_)
getText(node) ==
    CASE node.kind = "NumberExp" ->
            (IF node.minus THEN "-" ELSE "") \o Str(node.chars)
            \o (CASE node.token = "IMAG" -> "i" [] node.token = "I" -> "i"
                  [] node.token = "PI" -> "pi" [] OTHER -> "")
      [] node.kind = "VariableExp" -> "%" \o Str(node.name)
      [] node.kind = "AddrExp" ->
            CASE node.token = "IDENTIFIER_INT" ->
                    Str(node.name) \o "[" \o Str(node.chars) \o "]"
              [] node.token = "IDENTIFIER" -> Str(node.name)
              [] OTHER -> "[" \o Str(node.chars) \o "]"
      [] node.kind = "ParenthesisExp" -> "(" \o getText(node.args[1]) \o ")"
      [] node.kind = "SignedExp" ->
            TokenText(node.token) \o getText(node.args[1])
      [] node.kind = "FunctionExp" ->
            TokenText(node.token) \o "(" \o getText(node.args[1]) \o ")"
      [] node.kind \in {"PowerExp", "MulDivExp", "AddSubExp"} ->
            getText(node.args[1]) \o TokenText(node.token)
            \o getText(node.args[2])
      [] OTHER -> Str(node.chars)

_sign(number) == IF number.minus THEN Number("int", 0 - 1, 1) ELSE Number("int", 1, 1)

\* _real on the realN under a number: float(text), int(text)
_real(number) ==
    IF number.token \in {"FLOAT", "IMAG_FLOAT"}
    THEN LET dot == DotAt(number.chars)
             digits == SubSeq(number.chars, 1, dot - 1)
                       \o SubSeq(number.chars, dot + 1, Len(number.chars))
         IN  Number("float", PyInt(digits),
                    Pow(10, Len(number.chars) - dot))
    ELSE IF number.token \in {"INT", "IMAG_INT"}
    THEN Number("int", PyInt(number.chars), 1)
    ELSE Raised("RuntimeError", "Unexpected real: " \o Str(number.chars))

_number(number) ==
    IF number.token \in {"INT", "FLOAT", "REAL_NONE"}
    THEN IF _real(number).ok THEN Apply("mul", _sign(number), _real(number))
         ELSE _real(number)
    ELSE IF number.token \in {"IMAG_INT", "IMAG_FLOAT", "IMAG_NONE"}
    THEN IF _real(number).ok
         THEN Apply("mul", _sign(number),
                    NotComputed("complex", _real(number).zero))
         ELSE _real(number)
    ELSE IF number.token = "I"
    THEN Apply("mul", _sign(number), NotComputed("complex", "no"))
    ELSE IF number.token = "PI"
    THEN Apply("mul", _sign(number), NotComputed("float", "no"))
    ELSE Raised("RuntimeError", "Unexpected number: " \o getText(number))

\* _addr: MemoryReference(name, offset), MemoryReference(name, 0), Addr(offset)
_addr(classical) ==
    IF classical.token \in {"IDENTIFIER_INT", "IDENTIFIER"}
    THEN IF classical.token = "IDENTIFIER_INT"
         THEN Symbolic(Str(classical.name) \o "["
                       \o ToString(PyInt(classical.chars)) \o "]")
         ELSE Symbolic(Str(classical.name) \o "[0]")
    ELSE Symbolic("ro[" \o ToString(PyInt(classical.chars)) \o "]")

\* _variable: Parameter(name)
_variable(variable) == Symbolic("%" \o Str(variable.name))

FunctionTokens == {"SIN", "COS", "SQRT", "EXP", "CIS"}

\* _apply_function: quil_sin, ... on an Expression and the functions of
\* numpy.ma on a number
_apply_function(func, arg) ==
    IF func.token \notin FunctionTokens
    THEN Raised("RuntimeError",
                "Unexpected function to apply: " \o TokenText(func.token))
    ELSE IF arg.type = "Expression"
    THEN Symbolic(func.token)
    ELSE IF arg.den = 0
    THEN IF func.token = "SQRT" \/ arg.type \notin PythonTypes
         THEN Undetermined
         ELSE NotComputed(IF arg.type = "complex" \/ func.token = "CIS"
                          THEN "complex128" ELSE "float64", "unknown")
    ELSE CASE func.token = "SIN" -> NotComputed("float64", arg.zero)
           [] func.token = "COS" -> NotComputed("float64", "no")
           [] func.token = "SQRT" ->
                IF arg.num < 0 THEN NotComputed("masked", "unknown")
                ELSE NotComputed("float64", arg.zero)
           [] func.token = "EXP" -> NotComputed("float64", "no")
           [] func.token = "CIS" -> NotComputed("complex128", "no")

-----------------------------------------------------------------------------
(* The expression evaluator.                                              *)

RECURSIVE _expression(_)

\* a faulty _binary_exp that hands the operands to op in the wrong order
_binary_exp_swapped(expression, op) ==
    LET arg1 == _expression(expression.args[1])
        arg2 == _expression(expression.args[2])
    IN  IF ~arg1.ok THEN arg1
        ELSE IF ~arg2.ok THEN arg2
        ELSE Apply(op, arg2, arg1)

\* _binary_exp: op(_expression(arg1), _expression(arg2)); an exception of
\* the first operand is raised before the second is evaluated
_binary_exp(expression, op) ==
    LET arg1 == _expression(expression.args[1])
        arg2 == _expression(expression.args[2])
    IN  IF ~arg1.ok THEN arg1
        ELSE IF ~arg2.ok THEN arg2
        ELSE Apply(op, arg1, arg2)

\* a faulty end of _expression: the function ends without the raise and
\* returns None
FallsOffTheEnd(expression) ==
    [ok |-> TRUE, type |-> "NoneType", num |-> 0, den |-> 0,
     zero |-> "unknown", text |-> ""]

\* the raise that ends _expression
UnexpectedExpressionType(expression) ==
    Raised("RuntimeError",
           "Unexpected expression type:" \o getText(expression))

\* _expression: the if/elif chain over the class of the node; a branch that
\* returns nothing falls through to the raise at the end
_expression(expression) ==
    CASE expression.kind = "ParenthesisExp" -> _expression(expression.args[1])
      [] expression.kind = "PowerExp" ->
            IF expression.token = "POWER" THEN _binary_exp(expression, "pow")
            ELSE UnexpectedExpressionType(expression)
      [] expression.kind = "MulDivExp" ->
            IF expression.token = "TIMES" THEN _binary_exp(expression, "mul")
            ELSE IF expression.token = "DIVIDE"
            THEN _binary_exp(expression, "truediv")
            ELSE UnexpectedExpressionType(expression)
      [] expression.kind = "AddSubExp" ->
            IF expression.token = "PLUS" THEN _binary_exp(expression, "add")
            ELSE IF expression.token = "MINUS"
            THEN _binary_exp(expression, "sub")
            ELSE UnexpectedExpressionType(expression)
      [] expression.kind = "SignedExp" ->
            IF expression.token = "PLUS" THEN _expression(expression.args[1])
            ELSE IF expression.token = "MINUS"
            THEN LET arg == _expression(expression.args[1])
                 IN  IF arg.ok THEN Apply("mul", Number("int", 0 - 1, 1), arg)
                     ELSE arg
            ELSE UnexpectedExpressionType(expression)
      [] expression.kind = "FunctionExp" ->
            LET arg == _expression(expression.args[1])
            IN  IF arg.ok THEN _apply_function(expression, arg) ELSE arg
      [] expression.kind = "AddrExp" -> _addr(expression)
      [] expression.kind = "NumberExp" -> _number(expression)
      [] expression.kind = "VariableExp" -> _variable(expression)
      [] OTHER -> UnexpectedExpressionType(expression)

-----------------------------------------------------------------------------
(* Frames and the instructions that carry one expression.                 *)

Quote == "\""

\* x.strip(c): every leading and every trailing c is removed
RECURSIVE LStrip(_, _)
LStrip(chars, c) ==
    IF chars # <<>> /\ Head(chars) = c THEN LStrip(Tail(chars), c) ELSE chars

RECURSIVE RStrip(_, _)
RStrip(chars, c) ==
    IF chars # <<>> /\ Last(chars) = c THEN RStrip(Front(chars), c) ELSE chars

Strip(chars, c) == RStrip(LStrip(chars, c), c)

_str_contents(x) == Strip(x, Quote)

\* Frame(qubits, name)
Frame(qubits, name) == [qubits |-> qubits, name |-> name]

_frame(frame) ==
    Frame([i \in 1..Len(frame.qubits) |-> _formalQubit(frame.qubits[i])],
          _str_contents(frame.string))

exitSetFrequency(frame, expression) ==
    LET freq == _expression(expression)
    IN  /\ Visit("exitSetFrequency",
                 [frame |-> frame, expression |-> expression])
        /\ IF ~freq.ok
           THEN /\ Raise(freq.type, "_expression", {}, freq.text)
                /\ UNCHANGED <<result, nextId, body>>
           ELSE /\ AppendResult([op |-> "SET-FREQUENCY",
                                 frame |-> _frame(frame), value |-> freq])
                /\ UNCHANGED <<pc, returned, error>>
        /\ UNCHANGED <<previous_result, scope, entry>>

\* the trees of INT literals, parentheses, signs and +, -, *
IntTokenTexts == {<<"0">>, <<"2">>, <<"3">>, <<"4">>, <<"1", "0">>}
IntLeaves == {NumberNode(FALSE, "INT", c) : c \in IntTokenTexts}
ArithOps ==
    {<<"AddSubExp", "PLUS">>, <<"AddSubExp", "MINUS">>, <<"MulDivExp", "TIMES">>}

UnaryOver(S) ==
    {ParenNode(e) : e \in S}
    \cup {SignedNode(s, e) : s \in {"PLUS", "MINUS"}, e \in S}

BinaryOver(ops, A, B) ==
    {BinaryNode(o[1], o[2], a, b) : o \in ops, a \in A, b \in B}

ArithTrees1 ==
    IntLeaves \cup UnaryOver(IntLeaves) \cup BinaryOver(ArithOps, IntLeaves, IntLeaves)
ArithTrees ==
    ArithTrees1 \cup UnaryOver(ArithTrees1)
    \cup BinaryOver(ArithOps, ArithTrees1, ArithTrees1)

FrameInputs == [qubits : {<<"0">>}, string : {<<Quote, "x", "y", Quote>>}]

ArithNode ==
    /\ nEvents = 0
    /\ \E f \in FrameInputs, e \in ArithTrees : exitSetFrequency(f, e)
    /\ RefStep

\* the value of a tree of ArithTrees in integer arithmetic
RECURSIVE ReferenceValue(_)
ReferenceValue(node) ==
    CASE node.kind = "NumberExp" ->
            (CASE node.chars = <<"0">> -> 0 [] node.chars = <<"2">> -> 2
               [] node.chars = <<"3">> -> 3 [] node.chars = <<"4">> -> 4
               [] node.chars = <<"1", "0">> -> 10)
      [] node.kind = "ParenthesisExp" -> ReferenceValue(node.args[1])
      [] node.kind = "SignedExp" ->
            IF node.token = "MINUS" THEN 0 - ReferenceValue(node.args[1])
            ELSE ReferenceValue(node.args[1])
      [] node.token = "PLUS" ->
            ReferenceValue(node.args[1]) + ReferenceValue(node.args[2])
      [] node.token = "MINUS" ->
            ReferenceValue(node.args[1]) - ReferenceValue(node.args[2])
      [] node.token = "TIMES" ->
            ReferenceValue(node.args[1]) * ReferenceValue(node.args[2])

\* the tree of 2 + 3 * 4
TwoPlusThreeTimesFour ==
    BinaryNode("AddSubExp", "PLUS", NumberNode(FALSE, "INT", <<"2">>),
               BinaryNode("MulDivExp", "TIMES",
                          NumberNode(FALSE, "INT", <<"3">>),
                          NumberNode(FALSE, "INT", <<"4">>)))

\* C13: the value of a tree of integer literals, parentheses, signs, +, -
\* and * is the integer that the tree gives when each node applies its own
\* operator to the values of its operands; the tree of 2 + 3 * 4 gives 14.
C13_ArithmeticFollowsTheTree ==
    (last.handler = "exitSetFrequency" /\ last.input.expression \in ArithTrees)
    =>  /\ pc # "failed"
        /\ Len(result) = 1
        /\ result[1].op = "SET-FREQUENCY"
        /\ result[1].value.type = "int"
        /\ result[1].value.den = 1
        /\ result[1].value.num = ReferenceValue(last.input.expression)
        /\ last.input.expression = TwoPlusThreeTimesFour
                => result[1].value.num = 14

C13_Witness ==
    /\ last.handler = "exitSetFrequency"
    /\ last.input.expression = TwoPlusThreeTimesFour
    /\ Len(result) = 1
    /\ result[1].value.num = 14

-----------------------------------------------------------------------------
(* Expression nodes of every class, with and without the tokens that      *)
(* _expression asks for.                                                  *)

NumberLeaves ==
    {NumberNode(FALSE, "INT", <<"0">>), NumberNode(FALSE, "INT", <<"2">>),
     NumberNode(TRUE, "INT", <<"2">>),
     NumberNode(FALSE, "FLOAT", <<"0", ".", "5">>),
     NumberNode(FALSE, "REAL_NONE", <<"x">>)}

NotComputedLeaves ==
    {NumberNode(FALSE, "IMAG_INT", <<"2">>), NumberNode(FALSE, "I", <<>>),
     NumberNode(TRUE, "PI", <<>>), NumberNode(FALSE, "PI", <<>>)}

OtherLeaves ==
    {NumberNode(FALSE, "NONE", <<>>),
     VariableNode(<<"a">>),
     AddrNode("IDENTIFIER_INT", <<"r", "o">>, <<"1">>),
     AddrNode("IDENTIFIER", <<"r", "o">>, <<>>),
     AddrNode("INT", <<>>, <<"0">>),
     Node("OtherExp", "", FALSE, <<>>, <<"?">>, <<>>)}

Leaves == NumberLeaves \cup NotComputedLeaves \cup OtherLeaves

BinaryKinds ==
    {<<"PowerExp", "POWER">>, <<"PowerExp", "NONE">>,
     <<"MulDivExp", "TIMES">>, <<"MulDivExp", "DIVIDE">>,
     <<"MulDivExp", "NONE">>,
     <<"AddSubExp", "PLUS">>, <<"AddSubExp", "MINUS">>,
     <<"AddSubExp", "NONE">>}

\* the trees of one node over leaves; a power and a function are taken of
\* the leaves whose value is computed here
NodeTrees ==
    Leaves
    \cup {ParenNode(e) : e \in Leaves}
    \cup {SignedNode(s, e) : s \in {"PLUS", "MINUS", "NONE"}, e \in Leaves}
    \cup {FunctionNode(f, e) : f \in FunctionTokens \cup {"NONE"},
                               e \in NumberLeaves \cup OtherLeaves}
    \cup BinaryOver(BinaryKinds \ {<<"PowerExp", "POWER">>}, Leaves, Leaves)
    \cup BinaryOver({<<"PowerExp", "POWER">>},
                    NumberLeaves \cup OtherLeaves, NumberLeaves \cup OtherLeaves)

ExpressionNode ==
    /\ nEvents = 0
    /\ \E f \in FrameInputs, e \in NodeTrees : exitSetFrequency(f, e)
    /\ RefStep

\* the node and the nodes under it
RECURSIVE SubNodes(_)
SubNodes(node) ==
    {node} \cup UNION {SubNodes(node.args[i]) : i \in 1..Len(node.args)}

\* the message is one of the evaluator's own, ending in the text of the
\* node or of a node under it
CarriesTextOf(message, node) ==
    \E n \in SubNodes(node) :
        message \in {"Unexpected expression type:" \o getText(n),
                     "Unexpected number: " \o getText(n),
                     "Unexpected real: " \o Str(n.chars),
                     "Unexpected function to apply: " \o TokenText(n.token)}

ReturnedAValue ==
    /\ pc # "failed"
    /\ Len(result) = 1
    /\ result[1].op = "SET-FREQUENCY"
    /\ result[1].value.ok
    /\ result[1].value.type \in
            {"int", "float", "complex", "float64", "complex128", "masked",
             "Expression"}

FailedWithTheText ==
    /\ pc = "failed"
    /\ result = <<>>
    /\ error.type = "RuntimeError"
    /\ CarriesTextOf(error.message, last.input.expression)

LacksItsToken(node) ==
    \/ node.kind \notin {"ParenthesisExp", "PowerExp", "MulDivExp",
                         "AddSubExp", "SignedExp", "FunctionExp", "AddrExp",
                         "NumberExp", "VariableExp"}
    \/ /\ node.kind \in {"PowerExp", "MulDivExp", "AddSubExp", "SignedExp"}
       /\ node.token = "NONE"

-----------------------------------------------------------------------------
(* DECLARE                                                                *)

MaxOffsets == 2

\* ctx.INT(), ctx.SHARING(): a token of the node, or None
NoToken == [present |-> FALSE, chars |-> <<>>]
Token(chars) == [present |-> TRUE, chars |-> chars]

\* a faulty size: a size of 0 counts as no size
memory_size_or_one(INT) ==
    IF INT.present /\ PyInt(INT.chars) # 0 THEN PyInt(INT.chars) ELSE 1

\* memory_size: int(ctx.INT().getText()) if ctx.INT() else 1
memory_size_of(INT) == IF INT.present THEN PyInt(INT.chars) ELSE 1

\* Declare(name, memory_type, memory_size, shared_region, offsets)
Declare(name, memory_type, memory_size, shared_region, offsets) ==
    [op |-> "DECLARE", name |-> name, memory_type |-> memory_type,
     memory_size |-> memory_size, shared_region |-> shared_region,
     offsets |-> offsets]

exitMemoryDescriptor(name, memory_type, INT, SHARING, offsetDescriptor) ==
    LET memory_size == memory_size_of(INT)
        shared_region ==
            IF SHARING.present
            THEN [isNone |-> FALSE, name |-> Str(SHARING.chars)]
            ELSE [isNone |-> TRUE, name |-> ""]
        offsets ==
            IF SHARING.present
            THEN [i \in 1..Len(offsetDescriptor) |->
                    <<PyInt(offsetDescriptor[i].INT),
                      offsetDescriptor[i].IDENTIFIER>>]
            ELSE <<>>
    IN  /\ Visit("exitMemoryDescriptor",
                 [name |-> name, memory_type |-> memory_type, INT |-> INT,
                  SHARING |-> SHARING, offsetDescriptor |-> offsetDescriptor])
        /\ AppendResult(Declare(name, memory_type, memory_size, shared_region,
                                offsets))
        /\ UNCHANGED <<pc, returned, error, previous_result, scope, entry>>

OffsetDescriptors == [INT : {<<"0">>, <<"1", "2">>}, IDENTIFIER : {"BIT", "REAL"}]

\* the declarations of the grammar: offset descriptors follow SHARING only
MemoryDescriptorInputs ==
    [name : {"ro"}, memory_type : {"BIT", "REAL"},
     INT : {NoToken, Token(<<"0">>), Token(<<"2">>), Token(<<"1", "0">>)},
     SHARING : {NoToken}, offsetDescriptor : {<<>>}]
    \cup
    [name : {"ro"}, memory_type : {"BIT", "REAL"},
     INT : {NoToken, Token(<<"0">>), Token(<<"2">>), Token(<<"1", "0">>)},
     SHARING : {Token(<<"s", "h">>)},
     offsetDescriptor : SeqsUpTo(OffsetDescriptors, MaxOffsets)]

MemoryDescriptorNode ==
    /\ nEvents = 0
    /\ \E d \in MemoryDescriptorInputs :
            exitMemoryDescriptor(d.name, d.memory_type, d.INT, d.SHARING,
                                 d.offsetDescriptor)
    /\ RefStep

\* C15: a declaration without a size gives a Declare of 1 element and a
\* declaration of size n one of n elements; with SHARING the Declare has
\* the name of the shared region and the (offset, type) pairs of the offset
\* descriptors in their order; without SHARING it has no shared region and
\* no offsets.
C15_DeclareSizeAndSharing ==
    last.handler = "exitMemoryDescriptor" =>
        LET in == last.input
            d == result[1]
        IN  /\ pc # "failed"
            /\ Len(result) = 1
            /\ d.op = "DECLARE"
            /\ d.name = in.name
            /\ d.memory_type = in.memory_type
            /\ ~in.INT.present => d.memory_size = 1
            /\ in.INT = Token(<<"0">>) => d.memory_size = 0
            /\ in.INT = Token(<<"2">>) => d.memory_size = 2
            /\ in.INT = Token(<<"1", "0">>) => d.memory_size = 10
            /\ in.SHARING.present =>
                /\ ~d.shared_region.isNone
                /\ d.shared_region.name = "sh"
                /\ Len(d.offsets) = Len(in.offsetDescriptor)
                /\ \A i \in 1..Len(d.offsets) :
                    /\ d.offsets[i][2] = in.offsetDescriptor[i].IDENTIFIER
                    /\ in.offsetDescriptor[i].INT = <<"0">>
                            => d.offsets[i][1] = 0
                    /\ in.offsetDescriptor[i].INT = <<"1", "2">>
                            => d.offsets[i][1] = 12
            /\ ~in.SHARING.present =>
                /\ d.shared_region.isNone
                /\ d.offsets = <<>>

C15_Witness ==
    /\ last.handler = "exitMemoryDescriptor"
    /\ ~last.input.INT.present
    /\ last.input.SHARING.present
    /\ Len(result) = 1
    /\ result[1].memory_size = 1
    /\ result[1].offsets = <<<<12, "REAL">>, <<0, "BIT">>>>

-----------------------------------------------------------------------------
(* Waveforms and PULSE                                                    *)

MaxNamedParams == 3

\* a dict is the sequence of its (key, value) items in insertion order

\* a faulty ret[name] = expr that keeps the value a key already has
DictSetDefault(dict, key, value) ==
    IF \E i \in 1..Len(dict) : dict[i][1] = key
    THEN dict
    ELSE Append(dict, <<key, value>>)

\* dict[key] = value: the value of a key the dict has is replaced, a new
\* key is added at the end
DictSet(dict, key, value) ==
    IF \E i \in 1..Len(dict) : dict[i][1] = key
    THEN [i \in 1..Len(dict) |->
            IF dict[i][1] = key THEN <<key, value>> ELSE dict[i]]
    ELSE Append(dict, <<key, value>>)

\* the for loop of _named_parameters; raised is the exception of the
\* expression that ended it
RECURSIVE named_parameters_loop(_, _)
named_parameters_loop(params, ret) ==
    IF params = <<>>
    THEN [ok |-> TRUE, ret |-> ret, raised |-> Raised("none", "")]
    ELSE LET name == Head(params).IDENTIFIER
             expr == _expression(Head(params).expression)
         IN  IF ~expr.ok
             THEN [ok |-> FALSE, ret |-> ret, raised |-> expr]
             ELSE named_parameters_loop(Tail(params),
                                        DictSet(ret, name, expr))

_named_parameters(params) == named_parameters_loop(params, <<>>)

\* "/".join([spec.getText() for spec in ctx.name()])
_waveform_name(names) == Join("/", names)

\* the names of the built-in template waveforms
_waveform_classes ==
    {"flat", "gaussian", "drag_gaussian", "hrm_gaussian", "erf_square",
     "boxcar_kernel"}

WaveformReference(name) ==
    [kind |-> "WaveformReference", name |-> name, params |-> <<>>]

TemplateWaveform(name, params) ==
    [kind |-> "TemplateWaveform", name |-> name, params |-> params]

\* _wf_from_dict looks the name up in the catalog; accepted tells whether
\* the template takes the parameters it is given
_wf_from_dict(name, params, accepted) ==
    IF name \in _waveform_classes /\ accepted
    THEN [ok |-> TRUE, waveform |-> TemplateWaveform(name, params)]
    ELSE [ok |-> FALSE, waveform |-> WaveformReference(name)]

_waveform(names, namedParam, accepted) ==
    LET name == _waveform_name(names)
        param_dict == _named_parameters(namedParam)
    IN  IF ~param_dict.ok
        THEN [ok |-> FALSE, site |-> "_expression",
              raised |-> param_dict.raised, waveform |-> WaveformReference(name)]
        ELSE IF param_dict.ret # <<>>
        THEN LET wf == _wf_from_dict(name, param_dict.ret, accepted)
             IN  [ok |-> wf.ok, site |-> "_wf_from_dict",
                  raised |-> Raised("ValueError", ""),
                  waveform |-> wf.waveform]
        ELSE [ok |-> TRUE, site |-> "", raised |-> Raised("none", ""),
              waveform |-> WaveformReference(name)]

exitPulse(frame, names, namedParam, NONBLOCKING, accepted) ==
    LET waveform == _waveform(names, namedParam, accepted)
    IN  /\ Visit("exitPulse",
                 [frame |-> frame, names |-> names, namedParam |-> namedParam,
                  NONBLOCKING |-> NONBLOCKING])
        /\ IF ~waveform.ok
           THEN /\ Raise(waveform.raised.type, waveform.site, {},
                         waveform.raised.text)
                /\ UNCHANGED <<result, nextId, body>>
           ELSE /\ AppendResult([op |-> "PULSE", frame |-> _frame(frame),
                                 waveform |-> waveform.waveform,
                                 nonblocking |-> NONBLOCKING])
                /\ UNCHANGED <<pc, returned, error>>
        /\ UNCHANGED <<previous_result, scope, entry>>

NamedParams ==
    [IDENTIFIER : {"duration", "iq"},
     expression : {NumberNode(FALSE, "INT", <<"2">>),
                   NumberNode(FALSE, "INT", <<"3">>),
                   BinaryNode("MulDivExp", "DIVIDE",
                              NumberNode(FALSE, "INT", <<"2">>),
                              NumberNode(FALSE, "INT", <<"0">>)),
                   Node("OtherExp", "", FALSE, <<>>, <<"?">>, <<>>)}]

WaveformNames == {<<"flat">>, <<"my", "wf">>}

PulseNode ==
    /\ nEvents = 0
    /\ \E f \in FrameInputs, names \in WaveformNames,
          namedParam \in SeqsUpTo(NamedParams, MaxNamedParams),
          NONBLOCKING \in BOOLEAN, accepted \in BOOLEAN :
            exitPulse(f, names, namedParam, NONBLOCKING, accepted)
    /\ RefStep

\* the places of the pairs whose expression raises
Raising(namedParam) ==
    {i \in 1..Len(namedParam) : ~_expression(namedParam[i].expression).ok}

Min(S) == CHOOSE x \in S : \A y \in S : x <= y
Max(S) == CHOOSE x \in S : \A y \in S : x >= y

\* the place of the last pair with the key
LastOccurrence(namedParam, key) ==
    Max({i \in 1..Len(namedParam) : namedParam[i].IDENTIFIER = key})

\* C16: the named parameters of a waveform are evaluated in source order
\* (the first expression that raises ends the evaluation); repeated keys
\* raise nothing, and the mapping has one entry for each distinct key, with
\* the value of the last pair of that key.
C16_LastNamedParameterWins ==
    last.handler = "exitPulse" =>
        LET P == last.input.namedParam
            keys == {P[i].IDENTIFIER : i \in 1..Len(P)}
        IN  /\ Raising(P) # {} =>
                /\ pc = "failed"
                /\ error.site = "_expression"
                /\ error.type =
                        _expression(P[Min(Raising(P))].expression).type
                /\ error.message =
                        _expression(P[Min(Raising(P))].expression).text
            /\ Raising(P) = {} /\ pc = "failed" =>
                /\ error.site = "_wf_from_dict"
                /\ P # <<>>
            /\ pc # "failed" =>
                LET D == result[1].waveform.params
                IN  /\ Len(result) = 1
                    /\ Len(D) = Cardinality(keys)
                    /\ {D[i][1] : i \in 1..Len(D)} = keys
                    /\ \A i \in 1..Len(D) :
                        D[i][2] = _expression(
                            P[LastOccurrence(P, D[i][1])].expression)

C16_Witness ==
    /\ last.handler = "exitPulse"
    /\ pc # "failed"
    /\ Len(last.input.namedParam) = 3
    /\ last.input.namedParam[1].IDENTIFIER = "iq"
    /\ last.input.namedParam[2].IDENTIFIER = "duration"
    /\ last.input.namedParam[3].IDENTIFIER = "iq"
    /\ last.input.namedParam[1].expression # last.input.namedParam[3].expression
    /\ Len(result) = 1
    /\ Len(result[1].waveform.params) = 2
    /\ result[1].waveform.params[1][1] = "iq"
    /\ result[1].waveform.params[1][2].num = 3

-----------------------------------------------------------------------------
(* DELAY                                                                  *)

MaxFrames == 2

\* a faulty list of frame names that keeps the quotes
explicit_frames_quoted(strings) == strings

\* explicit_frames: [s.getText().strip('"') for s in ctx.STRING()]
explicit_frames_of(strings) ==
    [i \in 1..Len(strings) |-> Strip(strings[i], Quote)]

DelayFrames(frames, duration) ==
    [op |-> "DELAY", kind |-> "DelayFrames", frames |-> frames,
     qubits |-> <<>>, duration |-> duration]

DelayQubits(qubits, duration) ==
    [op |-> "DELAY", kind |-> "DelayQubits", frames |-> <<>>,
     qubits |-> qubits, duration |-> duration]

exitDelay(formalQubit, strings, expression) ==
    LET qubits == [i \in 1..Len(formalQubit) |-> _formalQubit(formalQubit[i])]
        explicit_frames == explicit_frames_of(strings)
        duration == _expression(expression)
        delay ==
            IF explicit_frames # <<>>
            THEN DelayFrames([i \in 1..Len(explicit_frames) |->
                                Frame(qubits, explicit_frames[i])], duration)
            ELSE DelayQubits(qubits, duration)
    IN  /\ Visit("exitDelay",
                 [formalQubit |-> formalQubit, strings |-> strings,
                  expression |-> expression])
        /\ IF ~duration.ok
           THEN /\ Raise(duration.type, "_expression", {}, duration.text)
                /\ UNCHANGED <<result, nextId, body>>
           ELSE /\ AppendResult(delay)
                /\ UNCHANGED <<pc, returned, error>>
        /\ UNCHANGED <<previous_result, scope, entry>>

\* the texts of STRING tokens
StringTokens ==
    {<<Quote, "x", "y", Quote>>, <<Quote, "r", "f", Quote>>, <<Quote, Quote>>,
     <<Quote, Quote, "a", Quote>>}

DelayInputs ==
    [formalQubit : SeqsUpTo({"0", "q"}, MaxQubits) \ {<<>>},
     strings : SeqsUpTo(StringTokens, MaxFrames),
     expression : {NumberNode(FALSE, "INT", <<"2">>),
                   NumberNode(FALSE, "FLOAT", <<"0", ".", "5">>),
                   VariableNode(<<"a">>),
                   BinaryNode("MulDivExp", "DIVIDE",
                              NumberNode(FALSE, "INT", <<"2">>),
                              NumberNode(FALSE, "INT", <<"0">>))}]

DelayNode ==
    /\ nEvents = 0
    /\ \E d \in DelayInputs : exitDelay(d.formalQubit, d.strings, d.expression)
    /\ RefStep

\* the text of a STRING token of StringTokens between its quotes
Unquoted(token) ==
    CASE token = <<Quote, "x", "y", Quote>> -> <<"x", "y">>
      [] token = <<Quote, "r", "f", Quote>> -> <<"r", "f">>
      [] token = <<Quote, Quote>> -> <<>>
      [] token = <<Quote, Quote, "a", Quote>> -> <<"a">>

\* the qubits Q of the instruction
QubitOf(text) ==
    IF text = "0"
    THEN [ok |-> TRUE, kind |-> "Qubit", index |-> 0, name |-> ""]
    ELSE [ok |-> TRUE, kind |-> "FormalArgument", index |-> 0, name |-> text]

QubitsOf(texts) == [i \in 1..Len(texts) |-> QubitOf(texts[i])]

\* a delay without frame names is one delay of the qubits
DelayOfQubits ==
    LET in == last.input
    IN  in.strings = <<>> =>
            /\ Len(result) = 1
            /\ result[1].kind = "DelayQubits"
            /\ result[1].qubits = QubitsOf(in.formalQubit)
            /\ result[1].frames = <<>>
            /\ result[1].duration = _expression(in.expression)

\* C17 as stated: a delay with n >= 1 frame names gives n delays, the i-th
\* on the frame of the i-th name over all the qubits; a delay without frame
\* names gives one delay of the qubits.
C17_OneDelayPerFrame ==
    (last.handler = "exitDelay" /\ pc # "failed") =>
        LET in == last.input
        IN  /\ in.strings # <<>> =>
                /\ Len(result) = Len(in.strings)
                /\ \A i \in 1..Len(in.strings) :
                    /\ result[i].op = "DELAY"
                    /\ result[i].frames =
                        <<Frame(QubitsOf(in.formalQubit), Unquoted(in.strings[i]))>>
            /\ DelayOfQubits

\* C17: a delay with n >= 1 frame names gives one delay of n frames, the
\* i-th frame over all the qubits and named by the i-th name without its
\* quotes, with the duration evaluated; a delay without frame names gives
\* one delay of the qubits with the duration evaluated.  A duration that
\* raises gives no delay.
C17_OneDelayOfAllFrames ==
    last.handler = "exitDelay" =>
        LET in == last.input
        IN  IF ~_expression(in.expression).ok
            THEN pc = "failed" /\ result = <<>>
                 /\ error.type = _expression(in.expression).type
            ELSE
            /\ pc # "failed"
            /\ in.strings # <<>> =>
                /\ Len(result) = 1
                /\ result[1].op = "DELAY"
                /\ result[1].kind = "DelayFrames"
                /\ result[1].duration = _expression(in.expression)
                /\ Len(result[1].frames) = Len(in.strings)
                /\ \A i \in 1..Len(in.strings) :
                    result[1].frames[i] =
                        Frame(QubitsOf(in.formalQubit), Unquoted(in.strings[i]))
            /\ DelayOfQubits

C17_Witness ==
    /\ last.handler = "exitDelay"
    /\ last.input.strings = <<<<Quote, "r", "f", Quote>>, <<Quote, "x", "y", Quote>>>>
    /\ last.input.formalQubit = <<"0", "q">>
    /\ Len(result) = 1
    /\ Len(result[1].frames) = 2
    /\ result[1].frames[1].name = <<"r", "f">>
    /\ Len(result[1].frames[2].qubits) = 2

-----------------------------------------------------------------------------
(* DEFWAVEFORM                                                            *)

MaxRows == 2

\* sum(rows, []): the rows one after the other
RECURSIVE Concat(_)
Concat(rows) == IF rows = <<>> THEN <<>> ELSE Head(rows) \o Concat(Tail(rows))

\* _matrix: every expression of every row, evaluated row by row; raised is
\* the exception of the first expression that raises
_matrix(matrix) ==
    LET expressions == Concat(matrix)
        values == [i \in 1..Len(expressions) |-> _expression(expressions[i])]
        out == [r \in 1..Len(matrix) |->
                    [c \in 1..Len(matrix[r]) |-> _expression(matrix[r][c])]]
    IN  IF FirstNotOk(values) # 0
        THEN [ok |-> FALSE, out |-> <<>>, raised |-> values[FirstNotOk(values)]]
        ELSE [ok |-> TRUE, out |-> out, raised |-> Raised("none", "")]

DefWaveform(name, parameters, entries) ==
    [op |-> "DEFWAVEFORM", name |-> name, parameters |-> parameters,
     entries |-> entries]

\* a faulty exitDefWaveform without the test of the name
exitDefWaveform_unchecked(names, param, matrix) ==
    LET name == _waveform_name(names)
        rows == _matrix(matrix)
    IN  /\ Visit("exitDefWaveform",
                 [names |-> names, param |-> param, matrix |-> matrix])
        /\ IF ~rows.ok
           THEN /\ Raise(rows.raised.type, "_expression", {}, rows.raised.text)
                /\ UNCHANGED <<result, nextId, body>>
           ELSE /\ AppendResult(DefWaveform(name, param, Concat(rows.out)))
                /\ UNCHANGED <<pc, returned, error>>
        /\ UNCHANGED <<previous_result, scope, entry>>

exitDefWaveform(names, param, matrix) ==
    LET name == _waveform_name(names)
        rows == _matrix(matrix)
    IN  /\ Visit("exitDefWaveform",
                 [names |-> names, param |-> param, matrix |-> matrix])
        /\ IF name \in _waveform_classes
           THEN /\ Raise("ValueError", "exitDefWaveform", {},
                         "Attempted to redefine built-in template waveform "
                         \o name \o ".")
                /\ UNCHANGED <<result, nextId, body>>
           ELSE IF ~rows.ok
           THEN /\ Raise(rows.raised.type, "_expression", {}, rows.raised.text)
                /\ UNCHANGED <<result, nextId, body>>
           ELSE /\ AppendResult(DefWaveform(name, param, Concat(rows.out)))
                /\ UNCHANGED <<pc, returned, error>>
        /\ UNCHANGED <<previous_result, scope, entry>>

EntryExpressions ==
    {NumberNode(FALSE, "INT", <<"2">>), VariableNode(<<"a">>),
     BinaryNode("MulDivExp", "DIVIDE", NumberNode(FALSE, "INT", <<"2">>),
                NumberNode(FALSE, "INT", <<"0">>))}

MatrixRows == SeqsUpTo(EntryExpressions, 2) \ {<<>>}

DefWaveformInputs ==
    [names : {<<"flat">>, <<"gaussian">>, <<"my_wf">>, <<"my", "wf">>},
     param : {<<>>, <<"%a">>},
     matrix : SeqsUpTo(MatrixRows, MaxRows) \ {<<>>}]

DefWaveformNode ==
    /\ nEvents = 0
    /\ \E d \in DefWaveformInputs : exitDefWaveform(d.names, d.param, d.matrix)
    /\ RefStep

\* the name that the definition gives
DefinedName ==
    CASE last.input.names = <<"flat">> -> "flat"
      [] last.input.names = <<"gaussian">> -> "gaussian"
      [] last.input.names = <<"my_wf">> -> "my_wf"
      [] last.input.names = <<"my", "wf">> -> "my/wf"

BuiltIn == DefinedName \in {"flat", "gaussian"}

RejectsBuiltIn ==
    BuiltIn =>
        /\ pc = "failed"
        /\ error.type = "ValueError"
        /\ error.site = "exitDefWaveform"
        /\ error.message = "Attempted to redefine built-in template waveform "
                           \o DefinedName \o "."
        /\ result = <<>>

AppendsOneDefWaveform ==
    /\ pc # "failed"
    /\ Len(result) = 1
    /\ result[1].op = "DEFWAVEFORM"
    /\ result[1].name = DefinedName

\* the entries of the definition that raise when they are evaluated
RaisingEntries ==
    {<<r, c>> \in (1..Len(last.input.matrix)) \X (1..2) :
        /\ c <= Len(last.input.matrix[r])
        /\ ~_expression(last.input.matrix[r][c]).ok}

\* C18 as stated: a definition of a built-in name raises and appends
\* nothing; every definition of another name appends one DefWaveform of
\* that name.
C18_OtherNamesAlwaysAppend ==
    last.handler = "exitDefWaveform" =>
        /\ RejectsBuiltIn
        /\ ~BuiltIn => AppendsOneDefWaveform

\* C18: a definition of a built-in name raises ValueError and appends
\* nothing; a definition of another name whose entries all evaluate appends
\* one DefWaveform of that name with the values of the entries in their
\* order; if an entry raises, that exception is raised and nothing is
\* appended.
C18_BuiltInWaveformNotRedefined ==
    last.handler = "exitDefWaveform" =>
        /\ RejectsBuiltIn
        /\ (~BuiltIn /\ RaisingEntries = {}) =>
            /\ AppendsOneDefWaveform
            /\ result[1].parameters = last.input.param
            /\ Len(result[1].entries) = SumLen(last.input.matrix)
            /\ \A r \in 1..Len(last.input.matrix) :
                \A c \in 1..Len(last.input.matrix[r]) :
                    result[1].entries[SumLen(SubSeq(last.input.matrix, 1, r - 1)) + c]
                        = _expression(last.input.matrix[r][c])
        /\ (~BuiltIn /\ RaisingEntries # {}) =>
            /\ pc = "failed"
            /\ error.site = "_expression"
            /\ error.type = "ZeroDivisionError"
            /\ result = <<>>

C18_Witness ==
    /\ last.handler = "exitDefWaveform"
    /\ last.input.names = <<"flat">>
    /\ pc = "failed"
    /\ error.type = "ValueError"
    /\ error.message = "Attempted to redefine built-in template waveform flat."
    /\ result = <<>>

-----------------------------------------------------------------------------
\* the top-level instructions built so far: the current buffer, and inside
\* a definition the buffer as it was at the enter event
TopLevel == IF scope = "top" THEN result ELSE entry

\* the exit event of a top-level instruction that raised nothing
TopLevelExit ==
    /\ nEvents' = nEvents + 1
    /\ scope' = "top"
    /\ pc' = "walk"
    /\ last'.handler \in {"exitHalt", "exitGate", "exitDefCircuit",
                          "exitDefCalibration", "exitDefMeasCalibration"}

OpOf(handler) ==
    CASE handler = "exitHalt" -> {"HALT"}
      [] handler = "exitGate" -> {"GATE"}
      [] handler = "exitDefCircuit" -> {"RAW"}
      [] handler = "exitDefCalibration" -> {"DEFCAL"}
      [] handler = "exitDefMeasCalibration" -> {"DEFCAL MEASURE"}
      [] OTHER -> {}

\* C19: run_parser returns the top-level instructions in the order of their
\* exit events: every exit event of a top-level instruction, a definition
\* included, adds its instruction at the end of the top-level sequence and
\* no other step changes that sequence; the caller gets the sequence in one
\* piece, when the walk is over, and nothing happens after that.
C19_ReturnedInExitOrder ==
    /\ [](pc # "returned" => returned.isNone)
    /\ [](pc = "returned" => ~returned.isNone /\ returned.list = result)
    /\ [][/\ TopLevelExit =>
                /\ TopLevel' = Append(TopLevel, Last(TopLevel'))
                /\ Last(TopLevel').id = nextId
                /\ Last(TopLevel').op \in OpOf(last'.handler)
          /\ ~TopLevelExit => TopLevel' = TopLevel
          /\ returned' # returned =>
                /\ pc = "walk" /\ pc' = "returned"
                /\ returned'.list = TopLevel
          /\ pc = "returned" => UNCHANGED vars]_vars

C19_Witness ==
    /\ pc = "returned"
    /\ Len(returned.list) = 2
    /\ returned.list[1].op = "DEFCAL"
    /\ returned.list[2].op = "HALT"
    /\ Len(body) = 1
    /\ body[1].id < returned.list[1].id
    /\ returned.list[1].id < returned.list[2].id

-----------------------------------------------------------------------------
\* C20: on the event sequences of the grammar, where no definition is
\* inside another, PyQuilListener with its one saved buffer and the listener
\* with a stack of buffers have the same current buffer after every event,
\* and run_parser returns the sequence that the listener with the stack
\* ends with; the stack is never deeper than one.
C20_SavedSlotEqualsStack ==
    /\ ref.result = result
    /\ Len(ref.stack) <= 1
    /\ ref.stack = <<>> <=> previous_result.isNone
    /\ ref.stack # <<>> => ref.stack[1] = previous_result.list
    /\ pc = "returned" => returned.list = ref.result /\ ref.stack = <<>>

C20_Witness ==
    /\ last.handler = "exitDefCalibration"
    /\ pc = "returned"
    /\ Len(ref.result) = 2
    /\ ref.result[1].op = "GATE"
    /\ ref.result[2].op = "DEFCAL"
    /\ Len(ref.result[2].instrs) = 1
    /\ ref.stack = <<>>
    /\ returned.list = ref.result

-----------------------------------------------------------------------------
(* The binding of modifier qubits to modifiers.                            *)

\* the wrappers that were handed a qubit, in the order given
RECURSIVE QubitConsuming(_)
QubitConsuming(wrappers) ==
    IF wrappers = <<>> THEN <<>>
    ELSE IF Head(wrappers).kind \in {"CONTROLLED", "FORKED"}
    THEN <<Head(wrappers)>> \o QubitConsuming(Tail(wrappers))
    ELSE QubitConsuming(Tail(wrappers))

\* modifier_qubits as the modifier loop of exitGate leaves it
modifier_qubits_left(modifiers, params, qubits) ==
    LET modifier_qubits == modifier_qubits_loop(modifiers, qubits, <<>>).list
    IN  apply_modifiers(modifiers_reversed(modifiers),
                        Gate("G", <<>>, base_qubits_of(qubits, modifier_qubits)),
                        modifier_qubits, params,
                        forked_offset_of(params, modifiers)).modifier_qubits

\* C22: in a gate application that appends a gate, the j-th CONTROLLED or
\* FORKED modifier in written order is bound to the j-th qubit argument,
\* so every modifier qubit is used exactly once, and no modifier qubit is
\* left in the list when the gate is appended.
C22_ModifierQubitsBoundInWrittenOrder ==
    AppliedGate =>
        LET M == last.input.modifiers
            Q == last.input.qubits
            written == QubitConsuming(Reverse(Last(result).gate.wrappers))
        IN  /\ Len(written) = QubitModifiers(M)
            /\ \A j \in 1..Len(written) : written[j].qubits = <<Q[j]>>
            /\ modifier_qubits_left(M, last.input.params, Q) = <<>>

C22_Witness ==
    /\ AppliedGate
    /\ last.input.modifiers = <<"CONTROLLED", "FORKED">>
    /\ last.input.qubits = <<0, 1, 1>>
    /\ Last(result).gate.wrappers[1] =
            [kind |-> "FORKED", qubits |-> <<1>>, params |-> <<>>]
    /\ Last(result).gate.wrappers[2] =
            [kind |-> "CONTROLLED", qubits |-> <<0>>, params |-> <<>>]

-----------------------------------------------------------------------------
(* The parameters a gate application uses.                                 *)

\* the parameters of the base gate followed by the windows of the FORKED
\* wrappers in the order of their application
UsedParams(gate) ==
    LET forks == Forks(gate.wrappers)
    IN  gate.params \o Flatten([j \in 1..Len(forks) |-> forks[j].params])

-----------------------------------------------------------------------------
(* Measurement, control flow, RESET, WAIT and the logical binary           *)
(* instructions.                                                           *)

MaxInstrs == 3

\* an optional child of a parse-tree node: ctx.addr(), ctx.qubit()
Absent == [present |-> FALSE, text |-> "", node |-> AddrNode("INT", <<>>, <<"0">>)]
PresentAddr(node) == [present |-> TRUE, text |-> "", node |-> node]
PresentQubit(text) == [present |-> TRUE, text |-> text, node |-> Absent.node]

\* Label(label.IDENTIFIER().getText())
_label(label) == [kind |-> "Label", name |-> Str(label)]

\* a handler that evaluates its arguments and then appends one instruction
AppendOnly(handler, input, instr) ==
    /\ Visit(handler, input)
    /\ AppendResult(instr)
    /\ UNCHANGED <<pc, previous_result, returned, error, scope, entry>>

exitMeasure(qubit_text, addr) ==
    LET qubit == _qubit(qubit_text)
        classical == IF addr.present
                     THEN [isNone |-> FALSE, ref |-> _addr(addr.node)]
                     ELSE [isNone |-> TRUE, ref |-> Symbolic("")]
    IN  /\ Visit("exitMeasure", [qubit |-> qubit_text, addr |-> addr])
        /\ IF ~qubit.ok
           THEN /\ Raise(qubit.kind, "_qubit", {},
                         "invalid literal for int() with base 10")
                /\ UNCHANGED <<result, nextId, body>>
           ELSE /\ AppendResult([op |-> "MEASURE", qubit |-> qubit,
                                 classical |-> classical])
                /\ UNCHANGED <<pc, returned, error>>
        /\ UNCHANGED <<previous_result, scope, entry>>

exitDefLabel(label) ==
    AppendOnly("exitDefLabel", [label |-> label],
               [op |-> "LABEL", label |-> _label(label)])

exitJump(label) ==
    AppendOnly("exitJump", [label |-> label],
               [op |-> "JUMP", target |-> _label(label)])

exitJumpWhen(label, addr) ==
    AppendOnly("exitJumpWhen", [label |-> label, addr |-> addr],
               [op |-> "JUMP-WHEN", target |-> _label(label),
                condition |-> _addr(addr)])

exitJumpUnless(label, addr) ==
    AppendOnly("exitJumpUnless", [label |-> label, addr |-> addr],
               [op |-> "JUMP-UNLESS", target |-> _label(label),
                condition |-> _addr(addr)])

exitResetState(qubit) ==
    LET q == _qubit(qubit.text)
    IN  /\ Visit("exitResetState", [qubit |-> qubit])
        /\ IF qubit.present /\ ~q.ok
           THEN /\ Raise(q.kind, "_qubit", {},
                         "invalid literal for int() with base 10")
                /\ UNCHANGED <<result, nextId, body>>
           ELSE /\ AppendResult(IF qubit.present
                                THEN [op |-> "RESET", all |-> FALSE, qubit |-> q]
                                ELSE [op |-> "RESET", all |-> TRUE,
                                      qubit |-> _qubit("0")])
                /\ UNCHANGED <<pc, returned, error>>
        /\ UNCHANGED <<previous_result, scope, entry>>

exitCircuitResetState(circuitQubit) ==
    AppendOnly("exitCircuitResetState", [circuitQubit |-> circuitQubit],
               [op |-> "RAW", text |-> "RESET " \o circuitQubit])

exitWait ==
    AppendOnly("exitWait", <<>>, [op |-> "WAIT"])

LogicalKeywords == {"AND", "OR", "IOR", "XOR"}

\* the classes the keywords build
LogicalOp(keyword) ==
    CASE keyword = "AND" -> "ClassicalAnd"
      [] keyword = "OR" -> "ClassicalOr"
      [] keyword = "IOR" -> "ClassicalInclusiveOr"
      [] keyword = "XOR" -> "ClassicalExclusiveOr"

\* the right operand: int(ctx.INT().getText()) or _addr(ctx.addr(1))
right_operand(INT, addr1) ==
    IF INT.present
    THEN [isMemoryReference |-> FALSE, int |-> PyInt(INT.chars),
          ref |-> Symbolic("")]
    ELSE [isMemoryReference |-> TRUE, int |-> 0, ref |-> _addr(addr1.node)]

\* a faulty handler: OR appends before it looks at its right operand
exitLogicalBinaryOp_appending_first(addr0, keyword, INT, addr1) ==
    LET left == _addr(addr0)
        right == right_operand(INT, addr1)
    IN  /\ Visit("exitLogicalBinaryOp",
                 [addr0 |-> addr0, keyword |-> keyword, INT |-> INT,
                  addr1 |-> addr1])
        /\ AppendResult([op |-> LogicalOp(keyword), left |-> left,
                         right |-> right])
        /\ IF keyword = "OR" /\ ~right.isMemoryReference
           THEN Raise("RuntimeError", "exitLogicalBinaryOp", {},
                      "Right operand of deprecated OR instruction must be a"
                        \o " MemoryReference, but found '"
                        \o ToString(right.int) \o "'")
           ELSE UNCHANGED <<pc, returned, error>>
        /\ UNCHANGED <<previous_result, scope, entry>>

exitLogicalBinaryOp(addr0, keyword, INT, addr1) ==
    LET left == _addr(addr0)
        right == right_operand(INT, addr1)
    IN  /\ Visit("exitLogicalBinaryOp",
                 [addr0 |-> addr0, keyword |-> keyword, INT |-> INT,
                  addr1 |-> addr1])
        /\ IF keyword = "OR" /\ ~right.isMemoryReference
           THEN /\ Raise("RuntimeError", "exitLogicalBinaryOp", {},
                         "Right operand of deprecated OR instruction must be a"
                            \o " MemoryReference, but found '"
                            \o ToString(right.int) \o "'")
                /\ UNCHANGED <<result, nextId, body>>
           ELSE /\ AppendResult([op |-> LogicalOp(keyword), left |-> left,
                                 right |-> right])
                /\ UNCHANGED <<pc, returned, error>>
        /\ UNCHANGED <<previous_result, scope, entry>>

\* the nodes of the programs walked
RoAddr == AddrNode("IDENTIFIER_INT", <<"r", "o">>, <<"1">>)

LabelTexts == {<<"@", "a">>}

MeasureInputs ==
    {[qubit |-> "0", addr |-> Absent], [qubit |-> "1", addr |-> PresentAddr(RoAddr)]}

LogicalBinaryOpInputs ==
    {[keyword |-> "AND", INT |-> Token(<<"1">>), addr1 |-> Absent],
     [keyword |-> "OR", INT |-> Token(<<"1">>), addr1 |-> Absent],
     [keyword |-> "OR", INT |-> NoToken, addr1 |-> PresentAddr(RoAddr)],
     [keyword |-> "IOR", INT |-> NoToken, addr1 |-> PresentAddr(RoAddr)],
     [keyword |-> "XOR", INT |-> Token(<<"0">>), addr1 |-> Absent]}

MeasureNode ==
    /\ nEvents < MaxInstrs
    /\ \E m \in MeasureInputs : exitMeasure(m.qubit, m.addr)
    /\ RefStep

DefLabelNode ==
    /\ nEvents < MaxInstrs
    /\ \E label \in LabelTexts : exitDefLabel(label)
    /\ RefStep

JumpNode ==
    /\ nEvents < MaxInstrs
    /\ \E label \in LabelTexts : exitJump(label)
    /\ RefStep

JumpWhenNode ==
    /\ nEvents < MaxInstrs
    /\ \E label \in LabelTexts : exitJumpWhen(label, RoAddr)
    /\ RefStep

JumpUnlessNode ==
    /\ nEvents < MaxInstrs
    /\ \E label \in LabelTexts : exitJumpUnless(label, RoAddr)
    /\ RefStep

ResetStateNode ==
    /\ nEvents < MaxInstrs
    /\ \E qubit \in {Absent, PresentQubit("0")} : exitResetState(qubit)
    /\ RefStep

CircuitResetStateNode ==
    /\ nEvents < MaxInstrs
    /\ scope = "DefCircuit"
    /\ exitCircuitResetState("a")
    /\ RefStep

WaitNode == nEvents < MaxInstrs /\ exitWait /\ RefStep

LogicalBinaryOpNode ==
    /\ nEvents < MaxInstrs
    /\ \E b \in LogicalBinaryOpInputs :
            exitLogicalBinaryOp(RoAddr, b.keyword, b.INT, b.addr1)
    /\ RefStep

BufferHalt == nEvents < MaxInstrs /\ HaltNode
BufferGate == nEvents < MaxInstrs /\ GateNode
BufferDefCircuitEnter == nEvents < MaxInstrs /\ DefCircuitEnter
BufferDefCalibrationEnter == nEvents < MaxInstrs /\ DefCalibrationEnter

\* the walk of a program of these instructions and definitions
NextBuffer ==
    \/ MeasureNode
    \/ DefLabelNode
    \/ JumpNode
    \/ JumpWhenNode
    \/ JumpUnlessNode
    \/ ResetStateNode
    \/ CircuitResetStateNode
    \/ WaitNode
    \/ LogicalBinaryOpNode
    \/ BufferHalt
    \/ BufferGate
    \/ BufferDefCircuitEnter
    \/ DefCircuitExit
    \/ BufferDefCalibrationEnter
    \/ DefCalibrationExit
    \/ Return

BufferSpec == InitWalk /\ [][NextBuffer]_vars

\* the handlers that append an instruction of their own
InstructionExits ==
    {"exitMeasure", "exitDefLabel", "exitHalt", "exitJump", "exitJumpWhen",
     "exitJumpUnless", "exitResetState", "exitCircuitResetState", "exitWait",
     "exitLogicalBinaryOp", "exitGate"} \cup DefinitionHandlers

\* a step that is a call of an instruction exit handler
InstructionStep ==
    nEvents' = nEvents + 1 /\ last'.handler \in InstructionExits

\* the buffer that is the current one when the handler is done: for the
\* exit of a definition the outer buffer that it restores
BufferAfter ==
    IF last'.handler \in DefinitionHandlers /\ ~previous_result.isNone
    THEN previous_result.list
    ELSE result

\* C24: a call of an instruction exit handler that raises nothing makes the
\* current buffer one entry longer and leaves all earlier entries where they
\* were (for the exit of a definition the current buffer is the outer one
\* that the exit restores); a call that raises leaves the current buffer as
\* it was.
C24_BufferIsAppendOnly ==
    [][InstructionStep =>
        /\ pc' # "failed" =>
            /\ Len(result') = Len(BufferAfter) + 1
            /\ SubSeq(result', 1, Len(BufferAfter)) = BufferAfter
        /\ pc' = "failed" => result' = result]_vars

C24_Witness ==
    /\ pc = "walk"
    /\ last.handler = "exitDefCalibration"
    /\ Len(result) = 2
    /\ result[1].op = "MEASURE"
    /\ result[2].op = "DEFCAL"
    /\ Len(result[2].instrs) = 1
    /\ result[2].instrs[1].op = "ClassicalAnd"

-----------------------------------------------------------------------------
(* Two calls of run_parser whose handlers interleave.                      *)

\* the list the next [] of call i makes
NewList(r, i) == <<i, r.listener[i].nLists + 1>>

\* a faulty constructor: result is one list made with the class and used by
\* every listener
PyQuilListener_sharing_result(r, i) ==
    [r EXCEPT !.listener[i].result = <<0, 1>>,
              !.listener[i].previous_result = NoList]

\* PyQuilListener(): self.result = []; self.previous_result = None
PyQuilListener(r, i) ==
    [r EXCEPT !.heap[NewList(r, i)] = <<>>,
              !.listener[i].result = NewList(r, i),
              !.listener[i].previous_result = NoList,
              !.listener[i].nLists = @ + 1]

\* self.result.append(instr) of the listener of call i
run_append(r, i, instr) ==
    [r EXCEPT !.heap[r.listener[i].result] = Append(@, instr)]

\* an instruction exit handler of the listener of call i
run_exitInstr(r, i, text) ==
    run_append(r, i, [op |-> text, instrs |-> NoList])

\* self.previous_result = self.result; self.result = []
run_enterDefCalibration(r, i) ==
    [r EXCEPT !.heap[NewList(r, i)] = <<>>,
              !.listener[i].previous_result = r.listener[i].result,
              !.listener[i].result = NewList(r, i),
              !.listener[i].nLists = @ + 1]

\* instrs = self.result; self.result = self.previous_result;
\* self.previous_result = None; self.result.append(DefCalibration(.., instrs))
run_exitDefCalibration(r, i, name) ==
    LET instrs == r.listener[i].result
        restored == [r EXCEPT !.listener[i].result = r.listener[i].previous_result,
                              !.listener[i].previous_result = NoList]
    IN  IF restored.listener[i].result = NoList
        THEN [restored EXCEPT !.listener[i].pc = "failed"]
        ELSE run_append(restored, i, [op |-> name, instrs |-> instrs])

\* one step of call i: the listener is made, the walker calls the handler
\* of the next event, or the call returns pyquil_listener.result
RunStep(r, i) ==
    LET me == r.listener[i]
    IN  IF me.pc = "start"
        THEN [PyQuilListener(r, i) EXCEPT !.listener[i].pc = "walk"]
        ELSE IF me.at > Len(me.program)
        THEN [r EXCEPT !.listener[i].pc = "returned",
                       !.listener[i].returned = me.result]
        ELSE LET e == me.program[me.at]
                 next == [r EXCEPT !.listener[i].at = @ + 1]
             IN  CASE e.kind = "enterDef" -> run_enterDefCalibration(next, i)
                   [] e.kind = "exitDef" -> run_exitDefCalibration(next, i, e.text)
                   [] OTHER -> run_exitInstr(next, i, e.text)

\* the programs: instructions and DEFCAL definitions with their bodies
InstrItem(text) == [kind |-> "instr", text |-> text, body |-> <<>>]
DefItem(name, texts) == [kind |-> "def", text |-> name, body |-> texts]

Items(i) ==
    IF i = 1
    THEN {InstrItem("H 0"), DefItem("DEFCAL X 0", <<"RX(pi) 0">>)}
    ELSE {InstrItem("Y 1"), DefItem("DEFCAL Z 1", <<"RZ(pi) 1">>)}

\* the events the walker makes of an item
ItemEvents(item) ==
    IF item.kind = "instr" THEN <<[kind |-> "exit", text |-> item.text]>>
    ELSE <<[kind |-> "enterDef", text |-> item.text]>>
            \o [k \in 1..Len(item.body) |-> [kind |-> "exit", text |-> item.body[k]]]
            \o <<[kind |-> "exitDef", text |-> item.text]>>

Programs(i) ==
    {Flatten([k \in 1..Len(items) |-> ItemEvents(items[k])]) :
        items \in SeqsUpTo(Items(i), MaxItems)}

\* the instructions of list l, each definition with those of its body
Contents(h, l) ==
    [k \in 1..Len(h[l]) |->
        [op |-> h[l][k].op,
         instrs |-> IF h[l][k].instrs = NoList THEN <<>>
                    ELSE [m \in 1..Len(h[h[l][k].instrs]) |->
                            h[h[l][k].instrs][m].op]]]

\* what call i returned
Final(r, i) == Contents(r.heap, r.listener[i].returned)

\* call i run to its end with no step of the other call
RECURSIVE Finish(_, _)
Finish(r, i) ==
    IF r.listener[i].pc \in {"returned", "failed"} THEN r
    ELSE Finish(RunStep(r, i), i)

\* what run_parser(program) returns when it is the only call
Alone(program, i) ==
    Final(Finish(IF i = 1 THEN StartRuns(program, <<>>)
                 ELSE StartRuns(<<>>, program), i), i)

RunsInit ==
    /\ pc = "walk"
    /\ result = <<>>
    /\ previous_result = NoneValue
    /\ returned = NoneValue
    /\ error = NoError
    /\ scope = "top"
    /\ entry = <<>>
    /\ body = <<>>
    /\ nEvents = 0
    /\ nextId = 0
    /\ nSyntaxErrors = 0
    /\ last = [handler |-> "none"]
    /\ ref = [result |-> <<>>, stack |-> <<>>]
    /\ runs \in {StartRuns(p1, p2) : p1 \in Programs(1), p2 \in Programs(2)}

\* either call takes its next step
NextRuns ==
    /\ \E i \in 1..2 :
            /\ runs.listener[i].pc \notin {"returned", "failed"}
            /\ runs' = RunStep(runs, i)
    /\ UNCHANGED <<pc, result, previous_result, returned, error, scope, entry,
                   body, nEvents, nextId, nSyntaxErrors, last, ref>>

RunsSpec == RunsInit /\ [][NextRuns]_vars

\* the lists made by call i
ListsOf(i) == {l \in ListIds : l[1] = i}

\* C21: of two run_parser calls whose steps interleave in any order, each
\* returns the instruction sequence it returns when it is the only call,
\* and keeps returning it while the other goes on; a step of one call
\* changes neither the listener of the other (its buffer and saved slot)
\* nor any list the other made.
C21_InterleavedParsesAreIndependent ==
    /\ [](\A i \in 1..2 :
            runs.listener[i].pc = "returned" =>
                Final(runs, i) = Alone(runs.listener[i].program, i))
    /\ [][\A i \in 1..2 :
            runs'.listener[i] # runs.listener[i] =>
                /\ runs'.listener[3 - i] = runs.listener[3 - i]
                /\ \A l \in ListsOf(3 - i) : runs'.heap[l] = runs.heap[l]]_vars

C21_Witness ==
    /\ runs.listener[1].pc = "returned"
    /\ Final(runs, 1) =
            <<[op |-> "H 0", instrs |-> <<>>],
              [op |-> "DEFCAL X 0", instrs |-> <<"RX(pi) 0">>]>>
    /\ runs.listener[2].pc = "walk"
    /\ runs.listener[2].previous_result # NoList
    /\ Len(runs.heap[runs.listener[2].previous_result]) = 1
    /\ Len(runs.heap[runs.listener[2].result]) = 1

-----------------------------------------------------------------------------
\* the walk of a program of one instruction
NextInstr ==
    \/ FenceNode
    \/ ArithNode
    \/ ExpressionNode
    \/ MemoryDescriptorNode
    \/ PulseNode
    \/ DelayNode
    \/ DefWaveformNode
    \/ Return

InstrSpec == InitWalk /\ [][NextInstr]_vars

====
